---- MODULE Spec2Model ----
(***************************************************************************)
(* martin, a DNS codec and iterative resolver, as state machines.          *)
(*                                                                         *)
(* Spec is the resolver (src/src/resolve.rs): one invocation of resolve()  *)
(* is a frame on a call stack; the transport (UDP socket plus              *)
(* Message::decode) is the environment and picks the outcome of every      *)
(* query.  SpecMessage builds Messages with query, response and push_*;    *)
(* SpecWire encodes a Message, may cut or extend the bytes, and parses     *)
(* them.  SpecName, SpecParseName, SpecParseRecord and SpecHeader apply    *)
(* one function of the codec to inputs drawn in their initial states.      *)
(* Strings, names and buffers are sequences of byte values, as in the      *)
(* source.                                                                 *)
(***************************************************************************)
EXTENDS Integers, Sequences, FiniteSets, TLC

VARIABLES
    stack, last,                     \* the resolver: call stack, last pass
    message, wire, framing, parsed,  \* a Message, its bytes, what Message::parse made of them
    call, result                     \* one call of a codec function and what it returned

resolverVars == <<stack, last>>
messageVars == <<message, wire, framing, parsed>>
callVars == <<call, result>>

vars == <<stack, last, message, wire, framing, parsed, call, result>>

\* no Message is being built or parsed
NoMessageWork == message = <<>> /\ wire = <<>> /\ framing = "" /\ parsed = <<>>
\* no codec function is being called
NoCall == call = <<>> /\ result = <<>>
\* no resolution is running
NoResolve == stack = <<>> /\ last = <<>>

(***************************************************************************)
(* Bounds of the model.                                                    *)
(***************************************************************************)
\* nested resolve() invocations that may be live below the top-level one
MaxDepth == 1
\* the transport hands out a bare NS referral only within the first
\* MaxReferralHop replies of an invocation
MaxReferralHop == 1
\* resource records in one reply, all three sections together
MaxRecs == 2
\* records pushed into one Message, all three sections together
MaxPush == 2
\* records in one Message that is put on the wire
MaxWireRecs == 1
\* pieces a string given to Name::from_str is put together from
MaxPieces == 6
\* bytes in a message that parse_name is applied to
MaxBuf == 6
\* bytes of RDATA in a record that parse_record is applied to
MaxRData == 4
\* the values 0..MaxCode are given to Opcode::Unknown and Rcode::Unknown
MaxCode == 17

(***************************************************************************)
(* Program constants.                                                      *)
(***************************************************************************)
\* the loop written as 0..=MAX_LOOKUPS
MAX_LOOKUPS_inclusive == 20 + 1

MAX_LOOKUPS == 20

\* another root server, b.root-servers.net
ROOT_SERVER_b == <<"V4", "170.247.170.2">>

ROOT_SERVER == <<"V4", "198.41.0.4">>

\* ASCII
DOT == 46
HYPHEN == 45

(***************************************************************************)
(* names.rs: Name::from_str and Display for Name                           *)
(***************************************************************************)
NameOk(n) == [ok |-> TRUE, name |-> n, err |-> ""]
NameErr(e) == [ok |-> FALSE, name |-> <<>>, err |-> e]

IsLabelChar(c) ==
    \/ c \in 97..122
    \/ c \in 65..90
    \/ c \in 48..57
    \/ c = HYPHEN

\* one turn of the for loop of from_str on the character c; st holds the
\* loop's variables (last_label_index is the 1-based position in name of
\* the pending length byte) and err names the return that ended the loop
from_str_step(st, c) ==
    IF c = DOT /\ st.label_len = 0 THEN [st EXCEPT !.err = "EmptyNonRootLabel"]
    ELSE IF c = DOT /\ st.label_len > 63
         THEN [st EXCEPT !.err = "LabelLengthGreaterThan63"]
    ELSE IF c = DOT
         THEN [st EXCEPT
                 !.name = Append([st.name EXCEPT ![st.last_label_index] = st.label_len],
                                 0),
                 !.last_label_index = Len(st.name) + 1,
                 !.label_len = 0]
    ELSE IF c = HYPHEN /\ st.label_len = 0
         THEN [st EXCEPT !.err = "HypenFirstCharacterInLabel"]
    ELSE IF IsLabelChar(c)
         THEN [st EXCEPT !.name = Append(st.name, c), !.label_len = st.label_len + 1]
    ELSE [st EXCEPT !.err = "InvalidCharacter"]

RECURSIVE from_str_loop(_, _, _, _)
\* the for loop of from_str over the characters lo..hi of s, in order, left
\* as soon as a turn returns; the range is halved so that a string of 254
\* characters nests 8 deep
from_str_loop(s, lo, hi, st) ==
    IF lo > hi THEN st
    ELSE IF lo = hi THEN from_str_step(st, s[lo])
    ELSE LET first == from_str_loop(s, lo, (lo + hi) \div 2, st) IN
         IF first.err # "" THEN first
         ELSE from_str_loop(s, ((lo + hi) \div 2) + 1, hi, first)

\* the return of from_str, in the loop or after it
from_str_end(st) ==
    IF st.err # "" THEN NameErr(st.err)
    ELSE IF st.label_len # 0 THEN NameErr("NameMustEndInRootLabel")
    ELSE NameOk(st.name)

from_str_start == [name |-> <<0>>, last_label_index |-> 1, label_len |-> 0, err |-> ""]

\* from_str without its check of the total length
from_str_unbounded(s) ==
    IF s = <<DOT>> THEN NameOk(<<0>>)
    ELSE from_str_end(from_str_loop(s, 1, Len(s), from_str_start))

from_str(s) ==
    IF Len(s) > 254 THEN NameErr("TotalLengthGreaterThan255")
    ELSE IF s = <<DOT>> THEN NameOk(<<0>>)
    ELSE from_str_end(from_str_loop(s, 1, Len(s), from_str_start))

RECURSIVE to_string_from(_, _)
\* the loop of Display::fmt, pos is 1-based
to_string_from(name, pos) ==
    IF name[pos] = 0 THEN <<>>
    ELSE LET length == name[pos]
             start == pos + 1
             end == start + length
         IN SubSeq(name, start, end - 1) \o <<DOT>> \o to_string_from(name, end)

to_string(name) == to_string_from(name, 1)

(***************************************************************************)
(* question.rs, message.rs, header.rs: the query that dns_query builds     *)
(***************************************************************************)
Question_new(qname, qtype) ==
    LET p == from_str(qname) IN
    IF p.ok THEN [ok |-> TRUE, q |-> [qname |-> p.name, qtype |-> qtype], err |-> ""]
    ELSE [ok |-> FALSE, q |-> [qname |-> <<>>, qtype |-> qtype], err |-> p.err]

\* a variant of Opcode or Rcode without / with a value (Unknown { value })
Variant(name) == [variant |-> name, value |-> 0]
Unknown(x) == [variant |-> "Unknown", value |-> x]

Header_query(id, opcode, recursion_desired, questions) ==
    [id |-> id, qr |-> FALSE, opcode |-> opcode, authoritative |-> FALSE,
     truncated |-> FALSE, recursion_desired |-> recursion_desired,
     recursion_available |-> FALSE, rcode |-> Variant("NoError"),
     question_count |-> questions, answer_count |-> 0, ns_count |-> 0,
     additional_count |-> 0]

\* the query with the recursion-desired flag always set
Message_query_rd(id, recursion_desired, questions) ==
    [header |-> Header_query(id, Variant("Query"), TRUE, Len(questions)),
     questions |-> questions, answers |-> <<>>, authorities |-> <<>>,
     additionals |-> <<>>]

Message_query(id, recursion_desired, questions) ==
    [header |-> Header_query(id, Variant("Query"), recursion_desired, Len(questions)),
     questions |-> questions, answers |-> <<>>, authorities |-> <<>>,
     additionals |-> <<>>]

(***************************************************************************)
(* What a nameserver can send back.                                        *)
(***************************************************************************)
NoAddr == <<"", "">>
NoName == <<>>

\* the variants of ResourceRecord the resolver tells apart, without the
\* owner name, class and ttl it never reads
RR_A(a) == [type |-> "A", addr |-> a, cname |-> NoName, ns_name |-> NoName]
RR_AAAA(a) == [type |-> "AAAA", addr |-> a, cname |-> NoName, ns_name |-> NoName]
RR_CNAME(n) == [type |-> "CNAME", addr |-> "", cname |-> n, ns_name |-> NoName]
RR_NS(n) == [type |-> "NS", addr |-> "", cname |-> NoName, ns_name |-> n]

\* "a." and "b." in wire form
NsNames == {<<1, 97, 0>>, <<1, 98, 0>>}

RRs ==
    {RR_A("192.0.2.1"), RR_AAAA("2001:db8::2"), RR_CNAME(<<1, 99, 0>>)}
        \cup {RR_NS(n) : n \in NsNames}

RecSeqs == UNION {[1..k -> RRs] : k \in 0..MaxRecs}

ReplyHeaders ==
    {[authoritative |-> aa, rcode |-> rc] : aa \in BOOLEAN, rc \in {"NoError", "NameError"}}

\* a reply: the record sequence s cut in three after p and after q records
Reply(h, s, p, q) ==
    [header |-> h,
     answers |-> SubSeq(s, 1, p),
     authorities |-> SubSeq(s, p + 1, q),
     additionals |-> SubSeq(s, q + 1, Len(s))]

NoMessage ==
    [header |-> [authoritative |-> FALSE, rcode |-> "NoError"],
     answers |-> <<>>, authorities |-> <<>>, additionals |-> <<>>]

\* what the socket and the decoder do with one query: io names the socket
\* call that fails ("none": all succeed), decoded whether Message::decode
\* accepts the datagram, msg the decoded reply
Failure(p) == [io |-> p, decoded |-> FALSE, msg |-> NoMessage]

Decoded(m) == [io |-> "none", decoded |-> TRUE, msg |-> m]

\* the socket calls of dns_query that can fail; "none": the datagram arrives
\* and Message::decode rejects it
FailurePoints == {"bind", "connect", "send", "recv", "none"}

(***************************************************************************)
(* resolve.rs                                                              *)
(***************************************************************************)
NoErr == [kind |-> "", arg |-> 0, wrap |-> 0]
Error(kind, arg) == [kind |-> kind, arg |-> arg, wrap |-> 0]
\* ResolveError::RecursiveLookupFailed(Box<e>)
RecursiveLookupFailed(e) == [e EXCEPT !.wrap = @ + 1]

NoRes == [tag |-> "none", addrs |-> <<>>, err |-> NoErr]
Ok(addrs) == [tag |-> "Ok", addrs |-> addrs, err |-> NoErr]
Err(e) == [tag |-> "Err", addrs |-> <<>>, err |-> e]

None == [some |-> FALSE, val |-> <<>>]
Some(v) == [some |-> TRUE, val |-> v]

NoQuery == [header |-> Header_query(0, Variant(""), FALSE, 0), questions |-> <<>>,
            answers |-> <<>>, authorities |-> <<>>, additionals |-> <<>>]

\* SocketAddrV4::new(addr, 53) / SocketAddrV6::new(addr, 53, 0, 0)
SocketAddr(nameserver) == [ip |-> nameserver, port |-> 53]

NoSocketAddr == [ip |-> NoAddr, port |-> 0]

QueryErr(e, query, sent, addr) ==
    [ok |-> FALSE, msg |-> NoMessage, err |-> e, query |-> query, sent |-> sent,
     dest |-> addr]

\* dns_query that takes a datagram it cannot decode for an empty message
dns_query_lenient(host, nameserver, o) ==
    LET addr == SocketAddr(nameserver)
        question == Question_new(host, "A")
        msg == Message_query(1, FALSE, <<question.q>>)
    IN IF o.io = "bind" THEN QueryErr(Error("IOError", 0), NoQuery, FALSE, NoSocketAddr)
       ELSE IF o.io = "connect" THEN QueryErr(Error("IOError", 0), NoQuery, FALSE, addr)
       ELSE IF ~question.ok THEN QueryErr(Error("InvalidHost", 0), NoQuery, FALSE, addr)
       ELSE IF o.io = "send" THEN QueryErr(Error("IOError", 0), msg, FALSE, addr)
       ELSE IF o.io = "recv" THEN QueryErr(Error("IOError", 0), msg, TRUE, addr)
       ELSE [ok |-> TRUE, msg |-> o.msg, err |-> NoErr, query |-> msg, sent |-> TRUE,
             dest |-> addr]

\* dns_query: Ok(msg) or Err(err), with the message handed to socket.send
\* (query), the address the socket is connected to (dest) and whether the
\* query left the socket (sent)
dns_query(host, nameserver, o) ==
    LET addr == SocketAddr(nameserver)
        question == Question_new(host, "A")
        msg == Message_query(1, FALSE, <<question.q>>)
    IN IF o.io = "bind" THEN QueryErr(Error("IOError", 0), NoQuery, FALSE, NoSocketAddr)
       ELSE IF o.io = "connect" THEN QueryErr(Error("IOError", 0), NoQuery, FALSE, addr)
       ELSE IF ~question.ok THEN QueryErr(Error("InvalidHost", 0), NoQuery, FALSE, addr)
       ELSE IF o.io = "send" THEN QueryErr(Error("IOError", 0), msg, FALSE, addr)
       ELSE IF o.io = "recv" THEN QueryErr(Error("IOError", 0), msg, TRUE, addr)
       ELSE IF ~o.decoded THEN QueryErr(Error("DeseralizationFailed", 0), msg, TRUE, addr)
       ELSE [ok |-> TRUE, msg |-> o.msg, err |-> NoErr, query |-> msg, sent |-> TRUE,
             dest |-> addr]

\* line 18 without the test of the authoritative bit
is_no_such_domain_any(reply) == reply.header.rcode = "NameError"

\* line 18
is_no_such_domain(reply) ==
    reply.header.authoritative /\ reply.header.rcode = "NameError"

IsAddress(rr) == rr.type \in {"A", "AAAA"}

IpAddr(rr) == IF rr.type = "A" THEN <<"V4", rr.addr>> ELSE <<"V6", rr.addr>>

RECURSIVE filter_map_addr(_)
filter_map_addr(rrs) ==
    IF rrs = <<>> THEN <<>>
    ELSE IF IsAddress(Head(rrs))
         THEN <<IpAddr(Head(rrs))>> \o filter_map_addr(Tail(rrs))
         ELSE filter_map_addr(Tail(rrs))

get_answer(msg) ==
    IF Len(msg.answers) = 0 THEN None
    ELSE Some(filter_map_addr(msg.answers))

RECURSIVE get_glue_last(_)
\* find_map from the back: the last address record instead of the first
get_glue_last(rrs) ==
    IF rrs = <<>> THEN None
    ELSE LET rest == get_glue_last(Tail(rrs)) IN
         IF rest.some THEN rest
         ELSE IF IsAddress(Head(rrs)) THEN Some(IpAddr(Head(rrs)))
         ELSE None

RECURSIVE get_glue_from(_)
get_glue_from(rrs) ==
    IF rrs = <<>> THEN None
    ELSE IF IsAddress(Head(rrs)) THEN Some(IpAddr(Head(rrs)))
    ELSE get_glue_from(Tail(rrs))

get_glue(msg) == get_glue_from(msg.additionals)

RECURSIVE get_ns_last(_)
\* find_map from the back: the last NS record instead of the first
get_ns_last(rrs) ==
    IF rrs = <<>> THEN None
    ELSE LET rest == get_ns_last(Tail(rrs)) IN
         IF rest.some THEN rest
         ELSE IF Head(rrs).type = "NS" THEN Some(to_string(Head(rrs).ns_name))
         ELSE None

RECURSIVE get_ns_from(_)
get_ns_from(rrs) ==
    IF rrs = <<>> THEN None
    ELSE IF Head(rrs).type = "NS" THEN Some(to_string(Head(rrs).ns_name))
    ELSE get_ns_from(Tail(rrs))

get_ns(msg) == get_ns_from(msg.authorities)

(***************************************************************************)
(* The call stack.  A frame is one invocation of resolve.  pc is "for" at  *)
(* the head of the for loop of line 13, "body" at the start of the loop    *)
(* body, "call" while the nested resolve of line 29 runs, "ret" once the   *)
(* invocation has returned res, "panic" when the expect of line 33 has     *)
(* aborted the process.  i counts the passes of the loop that were         *)
(* started.  sent, only_empty and to_root record what the invocation has   *)
(* done: the queries that left the socket, whether every reply so far      *)
(* carried no usable record, whether every query went to the root server.  *)
(* last is the query and the transport outcome of the pass that has just   *)
(* run, with the position on the stack of the invocation that ran it; it   *)
(* goes out of scope with the pass.                                        *)
(***************************************************************************)
NewFrame(host) ==
    [host |-> host, nameserver |-> ROOT_SERVER, i |-> 0, pc |-> "for",
     res |-> NoRes, sent |-> 0, only_empty |-> TRUE, to_root |-> TRUE]

\* "h." and, not a valid name, "h"
Hosts == {<<104, DOT>>, <<104>>}

NoLast == [depth |-> 0, outcome |-> [io |-> "", decoded |-> FALSE, msg |-> NoMessage],
           query |-> NoQuery, sent |-> FALSE, dest |-> NoSocketAddr, nested |-> NoRes]

Top == stack[Len(stack)]

SetTop(f) == [stack EXCEPT ![Len(stack)] = f]

\* a.root-servers.net
A_ROOT_SERVERS_NET == <<"V4", "198.41.0.4">>

\* a reply that gives the resolver nothing to go on
NoUsableInfo(m) ==
    /\ ~(m.header.authoritative /\ m.header.rcode = "NameError")
    /\ m.answers = <<>>
    /\ \A k \in DOMAIN m.additionals : m.additionals[k].type \notin {"A", "AAAA"}
    /\ \A k \in DOMAIN m.authorities : m.authorities[k].type # "NS"

\* the bookkeeping of one query in frame f
Observe(f, r) ==
    [f EXCEPT !.sent = IF r.sent THEN @ + 1 ELSE @,
              !.to_root = @ /\ (r.sent => r.dest = [ip |-> A_ROOT_SERVERS_NET, port |-> 53]),
              !.only_empty = @ /\ r.ok /\ NoUsableInfo(r.msg)]

\* the end of the loop body
Continue(f) == [f EXCEPT !.pc = "for"]

Return(f, res) == [f EXCEPT !.pc = "ret", !.res = res]

Init ==
    /\ stack \in {<<NewFrame(h)>> : h \in Hosts}
    /\ last = NoLast
    /\ NoMessageWork
    /\ NoCall

\* line 13: the for loop starts its next pass
ForNext ==
    /\ Top.pc = "for"
    /\ Top.i < MAX_LOOKUPS
    /\ stack' = SetTop([Top EXCEPT !.pc = "body", !.i = @ + 1])
    /\ last' = NoLast
    /\ UNCHANGED <<messageVars, callVars>>

\* lines 14-35: one pass of the loop body in the running invocation, up to
\* its return, the nested call of line 29, or the end of the body
Iterate(o) ==
    /\ Top.pc = "body"
    /\ UNCHANGED <<messageVars, callVars>>
    /\ LET f == Top
           r == dns_query(f.host, f.nameserver, o)
           g == Observe(f, r)
           reply == r.msg
           answer == get_answer(reply)
           glue == get_glue(reply)
           ns == get_ns(reply)
       IN /\ last' = [depth |-> Len(stack), outcome |-> o, query |-> r.query,
                      sent |-> r.sent, dest |-> r.dest, nested |-> NoRes]
          /\ IF ~r.ok
             THEN stack' = SetTop(Return(g, Err(r.err)))
             ELSE IF is_no_such_domain(reply)
             THEN stack' = SetTop(Return(g, Err(Error("NoSuchDomain", 0))))
             ELSE IF answer.some
             THEN stack' = SetTop(Return(g, Ok(answer.val)))
             ELSE IF glue.some
             THEN stack' = SetTop(Continue([g EXCEPT !.nameserver = glue.val]))
             ELSE IF ns.some
             THEN /\ Len(stack) <= MaxDepth
                  /\ f.i <= MaxReferralHop
                  /\ stack' = Append(SetTop([g EXCEPT !.pc = "call"]), NewFrame(ns.val))
             ELSE stack' = SetTop(Continue(g))

\* lines 29-33 with the error of the nested resolve dropped: the caller goes
\* on with the nameserver it has
after_nested_unchecked(f, res) ==
    IF res.tag = "Err" THEN Continue(f)
    ELSE IF res.addrs = <<>> THEN [f EXCEPT !.pc = "panic"]
    ELSE Continue([f EXCEPT !.nameserver = Head(res.addrs)])

\* lines 29-33: what the caller does with the result of the nested resolve
after_nested(f, res) ==
    IF res.tag = "Err" THEN Return(f, Err(RecursiveLookupFailed(res.err)))
    ELSE IF res.addrs = <<>> THEN [f EXCEPT !.pc = "panic"]
    ELSE Continue([f EXCEPT !.nameserver = Head(res.addrs)])

\* the nested resolve returns to line 29 of its caller
ReturnToCaller ==
    /\ Len(stack) > 1
    /\ Top.pc = "ret"
    /\ stack' = Append(SubSeq(stack, 1, Len(stack) - 2),
                       after_nested(stack[Len(stack) - 1], Top.res))
    /\ last' = [NoLast EXCEPT !.nested = Top.res]
    /\ UNCHANGED <<messageVars, callVars>>

\* line 36: the loop has run MAX_LOOKUPS times
LoopExit ==
    /\ Top.pc = "for"
    /\ Top.i >= MAX_LOOKUPS
    /\ stack' = SetTop(Return(Top, Err(Error("ExceededMaximumLookupDepth", MAX_LOOKUPS))))
    /\ last' = NoLast
    /\ UNCHANGED <<messageVars, callVars>>

\* a pass in which a socket call fails or the datagram is not decoded
IterateOnFailure ==
    /\ Top.pc = "body"
    /\ \E p \in FailurePoints : Iterate(Failure(p))

\* a pass in which a reply is received and decoded
IterateOnReply ==
    /\ Top.pc = "body"
    /\ \E h \in ReplyHeaders, s \in RecSeqs :
          \E p \in 0..Len(s) : \E q \in p..Len(s) : Iterate(Decoded(Reply(h, s, p, q)))

Next ==
    \/ ForNext
    \/ IterateOnFailure
    \/ IterateOnReply
    \/ ReturnToCaller
    \/ LoopExit

Spec == Init /\ [][Next]_vars

(***************************************************************************)
(* Vocabulary of the properties.                                           *)
(***************************************************************************)
\* a pass of the loop body has just run, in the invocation Sender
Acted == last.depth > 0

Sender == stack[last.depth]

\* that pass sent its query and decoded a reply, LastReply
GotReply == Acted /\ last.sent /\ last.outcome.io = "none" /\ last.outcome.decoded

LastReply == last.outcome.msg

AddressAt(rrs) == {k \in DOMAIN rrs : rrs[k].type \in {"A", "AAAA"}}

NsAt(rrs) == {k \in DOMAIN rrs : rrs[k].type = "NS"}

First(S) == CHOOSE k \in S : \A j \in S : k <= j

AddressOf(rr) == <<IF rr.type = "A" THEN "V4" ELSE "V6", rr.addr>>

\* the addresses of the A and AAAA records of rrs, in the order of rrs
AddressesOf(rrs) ==
    LET sel == SelectSeq(rrs, LAMBDA rr : rr.type \in {"A", "AAAA"})
    IN [k \in 1..Len(sel) |-> AddressOf(sel[k])]

\* the dotted text of a name in wire form whose labels are letters: every
\* length byte after the first becomes the dot that ends a label
TextOf(n) == [k \in 1..(Len(n) - 1) |-> IF n[k + 1] < 64 THEN 46 ELSE n[k + 1]]

Exceeded20 == [kind |-> "ExceededMaximumLookupDepth", arg |-> 20, wrap |-> 0]

\* every query goes to port 53 of the nameserver the invocation holds when
\* the pass starts
QueryGoesToNameserver ==
    (Top.pc = "body" /\ last'.depth = Len(stack) /\ last'.query # NoQuery)
        => last'.dest = [ip |-> Top.nameserver, port |-> 53]

\* an invocation keeps its host for as long as it lives
HostsKept ==
    \A k \in DOMAIN stack : k \in DOMAIN stack' => stack'[k].host = stack[k].host

\* what one step may do to the query counts, and what follows 20 passes
C1_Step ==
    /\ \A k \in DOMAIN stack :
          (k < Len(stack) /\ k \in DOMAIN stack') => (stack'[k].sent = stack[k].sent)
    /\ (Len(stack') = Len(stack)) => (Top'.sent \in {Top.sent, Top.sent + 1})
    /\ (Len(stack') > Len(stack)) => (Top'.sent = 0 /\ Top'.i = 0 /\ Top'.pc = "for")
    /\ (Top.pc = "for" /\ Top.i = 20) =>
          (/\ Len(stack') = Len(stack)
           /\ Top'.pc = "ret"
           /\ Top'.res = [tag |-> "Err", addrs |-> <<>>, err |-> Exceeded20])

(***************************************************************************)
(* C1: every invocation of resolve sends at most 20 queries of its own;    *)
(* a step changes the count of the running invocation only, by at most     *)
(* one, and a nested invocation starts with a count of zero; an invocation *)
(* that has run its 20 passes without returning returns                    *)
(* Err(ExceededMaximumLookupDepth(20)) next.                               *)
(***************************************************************************)
C1_OwnBudgetOf20 ==
    /\ [](\A k \in DOMAIN stack : stack[k].sent <= 20 /\ stack[k].i <= 20)
    /\ [][C1_Step]_vars

\* a nested invocation has used up its own 20 queries after its caller had
\* already sent one: 21 queries in all
C1_Witness ==
    /\ Len(stack) = 2
    /\ stack[1].sent = 1
    /\ stack[2].sent = 20
    /\ stack[2].pc = "ret"
    /\ stack[2].res.err = Exceeded20

(***************************************************************************)
(* C2: an invocation whose every query was answered by a reply without     *)
(* usable information has sent every query to 198.41.0.4, still holds that *)
(* nameserver, has sent one query per pass, starts no nested resolution,   *)
(* and when it has returned it has sent exactly 20 queries and returns     *)
(* Err(ExceededMaximumLookupDepth(20)).                                    *)
(***************************************************************************)
C2_StallsAtRootFor20 ==
    \A k \in DOMAIN stack :
        LET f == stack[k] IN
        f.only_empty =>
            /\ f.to_root
            /\ f.nameserver = <<"V4", "198.41.0.4">>
            /\ f.pc \in {"for", "body", "ret"}
            /\ (f.pc = "for") => (f.sent = f.i)
            /\ (f.pc = "ret") =>
                  (f.sent = 20 /\ f.res = [tag |-> "Err", addrs |-> <<>>, err |-> Exceeded20])

C2_Witness ==
    /\ Len(stack) = 1
    /\ Top.only_empty
    /\ Top.pc = "ret"
    /\ Top.sent = 20
    /\ Top.res.err = Exceeded20

(***************************************************************************)
(* C3: a reply with the authoritative bit and RCODE NameError makes the    *)
(* invocation return Err(NoSuchDomain) in that pass, whatever records the  *)
(* reply carries, without starting a nested resolution; a NameError reply  *)
(* without the authoritative bit does not; and NoSuchDomain is returned    *)
(* for no other reply.                                                     *)
(***************************************************************************)
C3_AuthoritativeNameError ==
    /\ (GotReply /\ LastReply.header.authoritative /\ LastReply.header.rcode = "NameError")
          => (/\ Len(stack) = last.depth
              /\ Sender.pc = "ret"
              /\ Sender.res = [tag |-> "Err", addrs |-> <<>>,
                               err |-> [kind |-> "NoSuchDomain", arg |-> 0, wrap |-> 0]])
    /\ (Acted /\ Sender.pc = "ret" /\ Sender.res.err.kind = "NoSuchDomain")
          => (GotReply /\ LastReply.header.authoritative
                /\ LastReply.header.rcode = "NameError")

\* NoSuchDomain although the reply carries an address answer and glue
C3_Witness ==
    /\ GotReply
    /\ LastReply.header.authoritative
    /\ LastReply.header.rcode = "NameError"
    /\ AddressAt(LastReply.answers) # {}
    /\ AddressAt(LastReply.additionals) # {}
    /\ Sender.res.err.kind = "NoSuchDomain"

(***************************************************************************)
(* C4: an invocation returns Ok(addrs) only on a reply whose answer        *)
(* section holds at least one A or AAAA record, and addrs are then the     *)
(* addresses of the A and AAAA answers, in answer order.                   *)
(***************************************************************************)
C4_OkOnlyWithAddressAnswer ==
    (Acted /\ Sender.pc = "ret" /\ Sender.res.tag = "Ok")
        => (/\ GotReply
            /\ AddressAt(LastReply.answers) # {}
            /\ Sender.res.addrs = AddressesOf(LastReply.answers))

C6_StartsNested ==
    (GotReply /\ Sender.pc # "ret" /\ AddressAt(LastReply.additionals) = {}
        /\ NsAt(LastReply.authorities) # {})
      => (/\ Len(stack) = last.depth + 1
          /\ Sender.pc = "call"
          /\ Top.host = TextOf(LastReply.authorities[First(NsAt(LastReply.authorities))].ns_name)
          /\ Top.nameserver = <<"V4", "198.41.0.4">>
          /\ Top.i = 0
          /\ Top.sent = 0
          /\ Top.pc = "for")

C6_UsesNestedAddress ==
    (last.nested.tag = "Ok" /\ last.nested.addrs # <<>>)
      => (Top.pc = "for" /\ Top.nameserver = last.nested.addrs[1])

C7_AfterNestedError ==
    last.nested.tag = "Err"
      => (/\ Top.pc = "ret"
          /\ Top.res.tag = "Err"
          /\ Top.res.err.kind = last.nested.err.kind
          /\ Top.res.err.arg = last.nested.err.arg
          /\ Top.res.err.wrap = last.nested.err.wrap + 1)

C7_Step ==
    (Len(stack) > 1 /\ Top.pc = "ret" /\ Top.res.tag = "Err")
      => (/\ Len(stack') = Len(stack) - 1
          /\ Top'.pc = "ret"
          /\ Top'.sent = stack[Len(stack) - 1].sent
          /\ Top'.i = stack[Len(stack) - 1].i)

C7_NestedFailureIsFatal == []C7_AfterNestedError /\ [][C7_Step]_vars

\* the nested resolution ran out of lookups; the caller had sent one query
C7_Witness ==
    /\ Len(stack) = 1
    /\ last.nested.tag = "Err"
    /\ last.nested.err.kind = "ExceededMaximumLookupDepth"
    /\ Top.res.err = [kind |-> "ExceededMaximumLookupDepth", arg |-> 20, wrap |-> 1]
    /\ Top.sent = 1

(***************************************************************************)
(* C8: no invocation panics, and a nested invocation never returns Ok with *)
(* an empty address list.                                                  *)
(***************************************************************************)
C8_NeverPanics ==
    /\ \A k \in DOMAIN stack : stack[k].pc # "panic"
    /\ last.nested.tag = "Ok" => last.nested.addrs # <<>>

(***************************************************************************)
(* C9: when a socket call of dns_query fails, or the received datagram     *)
(* is not decoded, the invocation returns Err(IOError), respectively       *)
(* Err(DeseralizationFailed), in that very pass: it has returned, so it    *)
(* sends no query again, and it starts no nested resolution.               *)
(***************************************************************************)
C9_TransportErrorIsFatal ==
    /\ (Acted /\ (\/ last.outcome.io \in {"bind", "connect"}
                  \/ (last.outcome.io \in {"send", "recv"} /\ last.query # NoQuery)))
          => (/\ Len(stack) = last.depth
              /\ Sender.pc = "ret"
              /\ Sender.res = [tag |-> "Err", addrs |-> <<>>,
                               err |-> [kind |-> "IOError", arg |-> 0, wrap |-> 0]])
    /\ (Acted /\ last.sent /\ last.outcome.io = "none" /\ ~last.outcome.decoded)
          => (/\ Len(stack) = last.depth
              /\ Sender.pc = "ret"
              /\ Sender.res = [tag |-> "Err", addrs |-> <<>>,
                               err |-> [kind |-> "DeseralizationFailed", arg |-> 0,
                                        wrap |-> 0]])

\* the receive fails on the second query, sent to a nameserver named by glue
C9_Witness ==
    /\ Acted
    /\ last.outcome.io = "recv"
    /\ last.sent
    /\ Sender.i = 2
    /\ Sender.sent = 2
    /\ Sender.nameserver # <<"V4", "198.41.0.4">>
    /\ Sender.res.err.kind = "IOError"

(***************************************************************************)
(* C10: every query handed to the socket has id 1, recursion-desired       *)
(* false and exactly one question, of QTYPE A, for the host of the         *)
(* invocation that sends it.                                               *)
(***************************************************************************)
C10_QueryShape ==
    (Acted /\ last.query # NoQuery)
      => (/\ last.query.header.id = 1
          /\ last.query.header.recursion_desired = FALSE
          /\ last.query.header.qr = FALSE
          /\ last.query.header.question_count = 1
          /\ Len(last.query.questions) = 1
          /\ last.query.questions[1].qtype = "A"
          /\ TextOf(last.query.questions[1].qname) = Sender.host
          /\ last.query.answers = <<>>
          /\ last.query.authorities = <<>>
          /\ last.query.additionals = <<>>)

\* a query of a nested invocation, for the NS target "b."
C10_Witness ==
    /\ Acted
    /\ last.depth = 2
    /\ last.sent
    /\ stack[1].host = <<104, 46>>
    /\ stack[2].host = <<98, 46>>
    /\ last.query.questions[1].qname = <<1, 98, 0>>

(***************************************************************************)
(* C11: an invocation of resolve whose host does not end with a dot is     *)
(* not rejected as an invalid name: it never returns Err(InvalidHost), and *)
(* the query it hands to the socket is the one for host + ".".             *)
(***************************************************************************)
C11_UnterminatedHostAccepted ==
    \A k \in DOMAIN stack :
        (stack[k].host # <<>> /\ stack[k].host[Len(stack[k].host)] # DOT)
          => /\ stack[k].res.err.kind # "InvalidHost"
             /\ (Acted /\ last.depth = k /\ last.outcome.io = "none")
                   => last.query = Message_query(1, FALSE,
                          <<Question_new(Append(stack[k].host, DOT), "A").q>>)

(***************************************************************************)
(* The message codec.  A buffer is a sequence of byte values 0..255; a     *)
(* parser gets the input that is left (i) and, where names may be          *)
(* compressed, the whole message (data), and returns nom's IResult: Done   *)
(* with the rest of the input and the value, Error, or Incomplete.  A      *)
(* slice or an arithmetic operation that panics in the source gives        *)
(* Panicked.                                                               *)
(***************************************************************************)
Done(rest, val) == [tag |-> "Done", rest |-> rest, val |-> val, err |-> ""]
Incomplete == [tag |-> "Incomplete", rest |-> <<>>, val |-> <<>>, err |-> ""]
ParseError(e) == [tag |-> "Error", rest |-> <<>>, val |-> <<>>, err |-> e]
Panicked == [tag |-> "Panicked", rest |-> <<>>, val |-> <<>>, err |-> ""]

\* &i[n..]
From(i, n) == SubSeq(i, n + 1, Len(i))
\* &i[..n]
UpTo(i, n) == SubSeq(i, 1, n)

(***************************************************************************)
(* errors.rs: the integer parsers; byteorder's writers                     *)
(***************************************************************************)
be_u8(i) == IF Len(i) < 1 THEN Incomplete ELSE Done(From(i, 1), i[1])

be_u16(i) ==
    IF Len(i) < 2 THEN Incomplete
    ELSE Done(From(i, 2), ((i[1] * 256) % 65536) + i[2])

\* a u32 is kept as its two 16-bit halves <<high, low>>
be_u32(i) ==
    IF Len(i) < 4 THEN Incomplete
    ELSE Done(From(i, 4), <<i[1] * 256 + i[2], i[3] * 256 + i[4]>>)

\* be_u32 and then x as i32: the same 32 bits, read as two's complement
be_i32(i) ==
    IF Len(i) < 4 THEN Incomplete
    ELSE Done(From(i, 4),
              (IF i[1] >= 128 THEN i[1] - 256 ELSE i[1]) * 16777216
                + i[2] * 65536 + i[3] * 256 + i[4])

take(i, count) ==
    IF Len(i) < count THEN Incomplete ELSE Done(From(i, count), UpTo(i, count))

write_u8(v) == <<v % 256>>
write_u16(v) == <<(v \div 256) % 256, v % 256>>
write_u32(v) == write_u16(v[1]) \o write_u16(v[2])
write_i32(v) ==
    <<(v \div 16777216) % 256, (v \div 65536) % 256, (v \div 256) % 256, v % 256>>

(***************************************************************************)
(* rr/src/header.rs                                                        *)
(***************************************************************************)
Header_response(query, recursion_available) ==
    [id |-> query.id, qr |-> TRUE, opcode |-> query.opcode, authoritative |-> FALSE,
     truncated |-> FALSE, recursion_desired |-> query.recursion_desired,
     recursion_available |-> recursion_available, rcode |-> Variant("NoError"),
     question_count |-> query.question_count, answer_count |-> 0, ns_count |-> 0,
     additional_count |-> 0]

\* impl From<u8> for Opcode
Opcode_from(bits) ==
    CASE bits = 0 -> Variant("Query")
      [] bits = 1 -> Variant("InverseQuery")
      [] bits = 2 -> Variant("Status")
      [] OTHER -> Unknown(bits)

\* impl From<Opcode> for u8
Opcode_into(opcode) ==
    CASE opcode.variant = "Query" -> 0
      [] opcode.variant = "InverseQuery" -> 1
      [] opcode.variant = "Status" -> 2
      [] OTHER -> opcode.value

\* impl From<u8> for Rcode
Rcode_from(bits) ==
    CASE bits = 0 -> Variant("NoError")
      [] bits = 1 -> Variant("FormatError")
      [] bits = 2 -> Variant("ServerFailure")
      [] bits = 3 -> Variant("NameError")
      [] bits = 4 -> Variant("NotImplemented")
      [] bits = 5 -> Variant("Refused")
      [] OTHER -> Unknown(bits)

\* impl From<Rcode> for u8
Rcode_into(rcode) ==
    CASE rcode.variant = "NoError" -> 0
      [] rcode.variant = "FormatError" -> 1
      [] rcode.variant = "ServerFailure" -> 2
      [] rcode.variant = "NameError" -> 3
      [] rcode.variant = "NotImplemented" -> 4
      [] rcode.variant = "Refused" -> 5
      [] OTHER -> rcode.value

\* bit k of x
Bit(x, k) == (x \div (2 ^ k)) % 2
\* a | b and a & b on 16 bits
BitOr(a, b) ==
    LET or[k \in 0..16] ==
            IF k = 16 THEN 0
            ELSE (IF Bit(a, k) = 1 \/ Bit(b, k) = 1 THEN 2 ^ k ELSE 0) + or[k + 1]
    IN or[0]
BitAnd(a, b) ==
    LET and[k \in 0..16] ==
            IF k = 16 THEN 0
            ELSE (IF Bit(a, k) = 1 /\ Bit(b, k) = 1 THEN 2 ^ k ELSE 0) + and[k + 1]
    IN and[0]

\* Header::flags_to_u16; (opcode as u16) << 11 drops the bits shifted out
flags_to_u16(h) ==
    LET opcode == Opcode_into(h.opcode)
        rcode == Rcode_into(h.rcode)
        res0 == BitOr(rcode, (opcode * 2048) % 65536)
        res1 == IF h.qr THEN BitOr(res0, 32768) ELSE res0
        res2 == IF h.authoritative THEN BitOr(res1, 1024) ELSE res1
        res3 == IF h.truncated THEN BitOr(res2, 512) ELSE res2
        res4 == IF h.recursion_desired THEN BitOr(res3, 256) ELSE res3
    IN IF h.recursion_available THEN BitOr(res4, 128) ELSE res4

write_header(header) ==
    write_u16(header.id) \o write_u16(flags_to_u16(header))
      \o write_u16(header.question_count) \o write_u16(header.answer_count)
      \o write_u16(header.ns_count) \o write_u16(header.additional_count)

\* parse_header that reads the opcode from bits 14-12 only
parse_header_3bit(i) ==
    IF Len(i) < 12 THEN Incomplete
    ELSE LET id == be_u16(i).val
             flags == be_u16(From(i, 2)).val
         IN Done(From(i, 12),
                 [id |-> id,
                  qr |-> BitAnd(flags, 32768) # 0,
                  opcode |-> Opcode_from(BitAnd(flags, 28672) \div 2048),
                  authoritative |-> BitAnd(flags, 1024) # 0,
                  truncated |-> BitAnd(flags, 512) # 0,
                  recursion_desired |-> BitAnd(flags, 256) # 0,
                  recursion_available |-> BitAnd(flags, 128) # 0,
                  rcode |-> Rcode_from(BitAnd(flags, 15)),
                  question_count |-> be_u16(From(i, 4)).val,
                  answer_count |-> be_u16(From(i, 6)).val,
                  ns_count |-> be_u16(From(i, 8)).val,
                  additional_count |-> be_u16(From(i, 10)).val])

\* parse_header: six be_u16 in a row, each Incomplete when the input ends
parse_header(i) ==
    IF Len(i) < 12 THEN Incomplete
    ELSE LET id == be_u16(i).val
             flags == be_u16(From(i, 2)).val
         IN Done(From(i, 12),
                 [id |-> id,
                  qr |-> BitAnd(flags, 32768) # 0,
                  opcode |-> Opcode_from(BitAnd(flags, 30720) \div 2048),
                  authoritative |-> BitAnd(flags, 1024) # 0,
                  truncated |-> BitAnd(flags, 512) # 0,
                  recursion_desired |-> BitAnd(flags, 256) # 0,
                  recursion_available |-> BitAnd(flags, 128) # 0,
                  rcode |-> Rcode_from(BitAnd(flags, 15)),
                  question_count |-> be_u16(From(i, 4)).val,
                  answer_count |-> be_u16(From(i, 6)).val,
                  ns_count |-> be_u16(From(i, 8)).val,
                  additional_count |-> be_u16(From(i, 10)).val])

(***************************************************************************)
(* names.rs: a Name on the wire                                            *)
(***************************************************************************)
is_root(name) == name = <<0>>

\* Name::write_to: the bytes of the name, never compressed
write_name(name) == name

StackOverflow == [tag |-> "StackOverflow", rest |-> <<>>, val |-> <<>>, err |-> ""]

\* the for loop of do_parse_name over the bytes of one label (lines 214-220)
RECURSIVE parse_label(_, _, _)
parse_label(label, index, name) ==
    IF index > Len(label) THEN Done(<<>>, name)
    ELSE LET c == label[index] IN
         IF c = HYPHEN /\ index = 1 THEN ParseError("HypenFirstCharacterInLabel")
         ELSE IF IsLabelChar(c) \/ c = HYPHEN
              THEN parse_label(label, index + 1, Append(name, c))
         ELSE ParseError("InvalidCharacter")

\* do_parse_name that hands back what the call at the pointer's target hands
\* back, rest of the input included
RECURSIVE do_parse_name_swallow(_, _, _, _)
do_parse_name_swallow(i, data, name, seen) ==
    IF Len(i) < 1 THEN Incomplete
    ELSE LET length == i[1]
             out == From(i, 1)
         IN IF length = 0
            THEN IF Len(name) + 1 > 255 THEN ParseError("TotalLengthGreaterThan255")
                 ELSE Done(out, Append(name, 0))
            ELSE IF length \in 1..63
            THEN IF Len(name) + 1 + length + 1 > 255
                 THEN ParseError("TotalLengthGreaterThan255")
                 ELSE IF Len(out) < length THEN Incomplete
                 ELSE LET l == parse_label(UpTo(out, length), 1, Append(name, length))
                      IN IF l.tag # "Done" THEN l
                         ELSE do_parse_name_swallow(From(out, length), data, l.val, seen)
            ELSE IF length \in 192..255
            THEN IF Len(i) < 2 THEN Incomplete
                 ELSE LET offset == ((length % 64) * 256) + i[2] IN
                      IF Len(data) < offset THEN Incomplete
                      ELSE IF <<offset, Len(name)>> \in seen THEN StackOverflow
                      ELSE IF \E e \in seen : e[1] = offset
                      THEN ParseError("TotalLengthGreaterThan255")
                      ELSE do_parse_name_swallow(From(data, offset), data, name, seen \cup {<<offset, Len(name)>>})
            ELSE ParseError("LabelLengthGreaterThan63")

\* do_parse_name (lines 182-241).  seen holds the offsets of the pointers
\* followed so far, each with the length the name had then.  A pointer to
\* an offset in seen repeats the bytes already read: when the name has not
\* grown since, the recursion of the source never ends; when it has, every
\* round adds the same labels until the check against 255 returns its error
RECURSIVE do_parse_name(_, _, _, _)
do_parse_name(i, data, name, seen) ==
    IF Len(i) < 1 THEN Incomplete
    ELSE LET length == i[1]
             out == From(i, 1)
         IN IF length = 0
            THEN IF Len(name) + 1 > 255 THEN ParseError("TotalLengthGreaterThan255")
                 ELSE Done(out, Append(name, 0))
            ELSE IF length \in 1..63
            THEN IF Len(name) + 1 + length + 1 > 255
                 THEN ParseError("TotalLengthGreaterThan255")
                 ELSE IF Len(out) < length THEN Incomplete
                 ELSE LET l == parse_label(UpTo(out, length), 1, Append(name, length))
                      IN IF l.tag # "Done" THEN l
                         ELSE do_parse_name(From(out, length), data, l.val, seen)
            ELSE IF length \in 192..255
            THEN IF Len(i) < 2 THEN Incomplete
                 ELSE LET offset == ((length % 64) * 256) + i[2] IN
                      IF Len(data) < offset THEN Incomplete
                      ELSE IF <<offset, Len(name)>> \in seen THEN StackOverflow
                      ELSE IF \E e \in seen : e[1] = offset
                      THEN ParseError("TotalLengthGreaterThan255")
                      ELSE LET r == do_parse_name(From(data, offset), data, name,
                                           seen \cup {<<offset, Len(name)>>})
                           IN IF r.tag = "Done" THEN Done(From(i, 2), r.val) ELSE r
            ELSE ParseError("LabelLengthGreaterThan63")

parse_name(i, data) == do_parse_name(i, data, <<>>, {})

(***************************************************************************)
(* rr.rs: Type, Class and parse_record                                     *)
(***************************************************************************)
class_from(value) ==
    CASE value = 1 -> Variant("Internet")
      [] value = 3 -> Variant("Chaos")
      [] value = 4 -> Variant("Hesoid")
      [] OTHER -> Unknown(value)

\* rclass.into(): the numeric code of a Class
Class_into(class) ==
    CASE class.variant = "Internet" -> 1
      [] class.variant = "Chaos" -> 3
      [] class.variant = "Hesoid" -> 4
      [] OTHER -> class.value

parse_class(i) ==
    LET r == be_u16(i) IN IF r.tag = "Done" THEN Done(r.rest, class_from(r.val)) ELSE r

type_from(value) ==
    CASE value = 1 -> Variant("A")
      [] value = 2 -> Variant("NS")
      [] value = 5 -> Variant("CNAME")
      [] value = 6 -> Variant("SOA")
      [] value = 15 -> Variant("MX")
      [] value = 16 -> Variant("TXT")
      [] value = 28 -> Variant("AAAA")
      [] value = 41 -> Variant("OPT")
      [] OTHER -> Unknown(value)

\* rtype.into(): the numeric code of a Type
Type_into(rtype) ==
    CASE rtype.variant = "A" -> 1
      [] rtype.variant = "NS" -> 2
      [] rtype.variant = "CNAME" -> 5
      [] rtype.variant = "SOA" -> 6
      [] rtype.variant = "PTR" -> 12
      [] rtype.variant = "MX" -> 15
      [] rtype.variant = "TXT" -> 16
      [] rtype.variant = "AAAA" -> 28
      [] rtype.variant = "OPT" -> 41
      [] OTHER -> rtype.value

parse_type(i) ==
    LET r == be_u16(i) IN IF r.tag = "Done" THEN Done(r.rest, type_from(r.val)) ELSE r

\* nom's tag!: Error when the bytes at hand differ from the tag, Incomplete
\* when they are a proper prefix of it
tag(i, bytes) ==
    LET m == IF Len(i) < Len(bytes) THEN Len(i) ELSE Len(bytes) IN
    IF UpTo(i, m) # UpTo(bytes, m) THEN ParseError("Tag")
    ELSE IF m < Len(bytes) THEN Incomplete
    ELSE Done(From(i, m), bytes)

\* class, ttl and the 16-bit RDLENGTH (parse_simple_body, parse_body_soa_1,
\* the head of the other bodies); val is <<class, ttl, length>>
parse_simple_body(i) ==
    LET class == parse_class(i) IN
    IF class.tag # "Done" THEN class
    ELSE LET ttl == be_i32(class.rest) IN
         IF ttl.tag # "Done" THEN ttl
         ELSE LET length == be_u16(ttl.rest) IN
              IF length.tag # "Done" THEN length
              ELSE Done(length.rest, <<class.val, ttl.val, length.val>>)

parse_unknown(i, name, rtype) ==
    LET b == parse_simple_body(i) IN
    IF b.tag # "Done" THEN b
    ELSE LET d == take(b.rest, b.val[3]) IN
         IF d.tag # "Done" THEN d
         ELSE Done(d.rest, [type |-> "Unknown", name |-> name, rtype |-> rtype,
                            class |-> b.val[1], ttl |-> b.val[2], data |-> d.val])

parse_a(i, name) ==
    LET class == parse_class(i) IN
    IF class.tag # "Done" THEN class
    ELSE LET ttl == be_i32(class.rest) IN
         IF ttl.tag # "Done" THEN ttl
         ELSE LET length == tag(ttl.rest, <<0, 4>>) IN
              IF length.tag = "Error" THEN ParseError("Custom(403)")
              ELSE IF length.tag # "Done" THEN length
              ELSE LET d == take(length.rest, 4) IN
                   IF d.tag # "Done" THEN d
                   ELSE Done(d.rest, [type |-> "A", name |-> name, class |-> class.val,
                                      ttl |-> ttl.val, addr |-> d.val])

\* the eight be_u16 of an Ipv6Addr
segments(octets) == [k \in 1..8 |-> octets[2 * k - 1] * 256 + octets[2 * k]]

RECURSIVE octets_from(_, _)
octets_from(segs, k) ==
    IF k > Len(segs) THEN <<>> ELSE write_u16(segs[k]) \o octets_from(segs, k + 1)
\* Ipv6Addr::octets
octets(segs) == octets_from(segs, 1)

parse_aaaa(i, name) ==
    LET class == parse_class(i) IN
    IF class.tag # "Done" THEN class
    ELSE LET ttl == be_i32(class.rest) IN
         IF ttl.tag # "Done" THEN ttl
         ELSE LET length == tag(ttl.rest, <<0, 16>>) IN
              IF length.tag = "Error" THEN ParseError("Custom(405)")
              ELSE IF length.tag # "Done" THEN length
              ELSE LET d == take(length.rest, 16) IN
                   IF d.tag # "Done" THEN d
                   ELSE Done(d.rest, [type |-> "AAAA", name |-> name, class |-> class.val,
                                      ttl |-> ttl.val, addr |-> segments(d.val)])

\* parse_simple_name that hands back the input after the embedded name
parse_simple_name_after_name(data, i) ==
    LET b == parse_simple_body(i) IN
    IF b.tag # "Done" THEN b
    ELSE LET output == b.rest
             length == b.val[3]
             second_name == parse_name(output, data)
         IN IF second_name.tag # "Done" THEN second_name
            ELSE IF length > Len(output) THEN Panicked
            ELSE Done(second_name.rest, <<b.val[1], b.val[2], second_name.val>>)

\* parse_simple_name: &output[length..] panics when length > output.len()
parse_simple_name(data, i) ==
    LET b == parse_simple_body(i) IN
    IF b.tag # "Done" THEN b
    ELSE LET output == b.rest
             length == b.val[3]
             second_name == parse_name(output, data)
         IN IF second_name.tag # "Done" THEN second_name
            ELSE IF length > Len(output) THEN Panicked
            ELSE Done(From(output, length), <<b.val[1], b.val[2], second_name.val>>)

parse_cname(data, i, name) ==
    LET r == parse_simple_name(data, i) IN
    IF r.tag # "Done" THEN r
    ELSE Done(r.rest, [type |-> "CNAME", name |-> name, class |-> r.val[1],
                       ttl |-> r.val[2], cname |-> r.val[3]])

parse_ns(data, i, name) ==
    LET r == parse_simple_name(data, i) IN
    IF r.tag # "Done" THEN r
    ELSE Done(r.rest, [type |-> "NS", name |-> name, class |-> r.val[1],
                       ttl |-> r.val[2], ns_name |-> r.val[3]])

\* five be_u32 in a row; val is the sequence of the five
parse_body_soa_2(i) ==
    IF Len(i) < 20 THEN Incomplete
    ELSE Done(From(i, 20), [k \in 1..5 |-> be_u32(From(i, 4 * (k - 1))).val])

parse_soa(data, i, name) ==
    LET b == parse_simple_body(i) IN
    IF b.tag # "Done" THEN b
    ELSE LET output == b.rest
             length == b.val[3]
         IN IF Len(output) < length THEN Incomplete
            ELSE LET mname == parse_name(output, data) IN
                 IF mname.tag # "Done" THEN mname
                 ELSE LET rname == parse_name(mname.rest, data) IN
                      IF rname.tag # "Done" THEN rname
                      ELSE LET args == parse_body_soa_2(rname.rest) IN
                           IF args.tag # "Done" THEN args
                           ELSE Done(From(output, length),
                                     [type |-> "SOA", name |-> name, class |-> b.val[1],
                                      ttl |-> b.val[2], mname |-> mname.val,
                                      rname |-> rname.val, serial |-> args.val[1],
                                      refresh |-> args.val[2], retry |-> args.val[3],
                                      expire |-> args.val[4], minimum |-> args.val[5]])

\* parse_opt without its check of the owner name
parse_opt_any_name(i, name) ==
    LET payload_size == be_u16(i) IN
    IF payload_size.tag # "Done" THEN payload_size
    ELSE LET rcode == be_u8(payload_size.rest) IN
         IF rcode.tag # "Done" THEN rcode
         ELSE LET version == be_u8(rcode.rest) IN
              IF version.tag # "Done" THEN version
              ELSE LET flags == be_u16(version.rest) IN
                   IF flags.tag # "Done" THEN flags
                   ELSE LET length == be_u16(flags.rest) IN
                        IF length.tag # "Done" THEN length
                        ELSE LET d == take(length.rest, length.val) IN
                             IF d.tag # "Done" THEN d
                             ELSE Done(d.rest,
                                       [type |-> "OPT",
                                        payload_size |-> payload_size.val,
                                        extended_rcode |-> rcode.val,
                                        version |-> version.val,
                                        dnssec_ok |-> BitAnd(flags.val, 32768) # 0,
                                        data |-> d.val])

parse_opt(i, name) ==
    IF ~is_root(name) THEN ParseError("Custom(410)")
    ELSE LET payload_size == be_u16(i) IN
         IF payload_size.tag # "Done" THEN payload_size
         ELSE LET rcode == be_u8(payload_size.rest) IN
              IF rcode.tag # "Done" THEN rcode
              ELSE LET version == be_u8(rcode.rest) IN
                   IF version.tag # "Done" THEN version
                   ELSE LET flags == be_u16(version.rest) IN
                        IF flags.tag # "Done" THEN flags
                        ELSE LET length == be_u16(flags.rest) IN
                             IF length.tag # "Done" THEN length
                             ELSE LET d == take(length.rest, length.val) IN
                                  IF d.tag # "Done" THEN d
                                  ELSE Done(d.rest,
                                            [type |-> "OPT",
                                             payload_size |-> payload_size.val,
                                             extended_rcode |-> rcode.val,
                                             version |-> version.val,
                                             dnssec_ok |-> BitAnd(flags.val, 32768) # 0,
                                             data |-> d.val])

\* parse_mx and parse_body_mx: length - 2 on a u16 and &output[length..]
\* both panic on a length the input does not have
parse_mx(data, i, name) ==
    LET b == parse_simple_body(i) IN
    IF b.tag # "Done" THEN b
    ELSE LET preference == be_u16(b.rest) IN
         IF preference.tag # "Done" THEN preference
         ELSE IF b.val[3] < 2 THEN Panicked
         ELSE LET output == preference.rest
                  length == b.val[3] - 2
                  exchange == parse_name(output, data)
              IN IF exchange.tag # "Done" THEN exchange
                 ELSE IF length > Len(output) THEN Panicked
                 ELSE Done(From(output, length),
                           [type |-> "MX", name |-> name, class |-> b.val[1],
                            ttl |-> b.val[2], preference |-> preference.val,
                            exchange |-> exchange.val])

\* take_str!: the bytes must be UTF-8; of the bytes of the model only those
\* below 128 are
parse_char_string(i) ==
    LET length == be_u8(i) IN
    IF length.tag # "Done" THEN length
    ELSE LET s == take(length.rest, length.val) IN
         IF s.tag # "Done" THEN s
         ELSE IF \E k \in DOMAIN s.val : s.val[k] >= 128 THEN ParseError("TakeStr")
         ELSE Done(s.rest, s.val)

\* nom's many1!(parse_char_string): Error when the first string fails, then
\* strings until the input is used up or one is in error; Incomplete when
\* one is cut short
RECURSIVE many1_more(_, _)
many1_more(input, res) ==
    IF Len(input) = 0 THEN Done(input, res)
    ELSE LET r == parse_char_string(input) IN
         IF r.tag = "Error" THEN Done(input, res)
         ELSE IF r.tag = "Incomplete" THEN Incomplete
         ELSE many1_more(r.rest, Append(res, r.val))

many1_char_string(i) ==
    LET r == parse_char_string(i) IN
    IF r.tag = "Error" THEN ParseError("Many1")
    ELSE IF r.tag = "Incomplete" THEN Incomplete
    ELSE many1_more(r.rest, <<r.val>>)

\* parse_txt: flat_map!(take!(length), many1!(parse_char_string))
parse_txt(i, name) ==
    LET b == parse_simple_body(i) IN
    IF b.tag # "Done" THEN b
    ELSE LET d == take(b.rest, b.val[3]) IN
         IF d.tag # "Done" THEN d
         ELSE LET strings == many1_char_string(d.val) IN
              IF strings.tag # "Done" THEN strings
              ELSE Done(d.rest, [type |-> "TXT", name |-> name, class |-> b.val[1],
                                 ttl |-> b.val[2], data |-> strings.val])

\* the RDATA parser that the record's type selects
parse_record_body(data, output, name, rtype) ==
    CASE rtype.variant = "A" -> parse_a(output, name)
      [] rtype.variant = "AAAA" -> parse_aaaa(output, name)
      [] rtype.variant = "CNAME" -> parse_cname(data, output, name)
      [] rtype.variant = "SOA" -> parse_soa(data, output, name)
      [] rtype.variant = "OPT" -> parse_opt(output, name)
      [] rtype.variant = "MX" -> parse_mx(data, output, name)
      [] rtype.variant = "NS" -> parse_ns(data, output, name)
      [] rtype.variant = "TXT" -> parse_txt(output, name)
      [] OTHER -> parse_unknown(output, name, rtype.value)

\* after parse_type returned rtype
parse_record_type(data, name, rtype) ==
    IF rtype.tag # "Done" THEN rtype
    ELSE parse_record_body(data, rtype.rest, name, rtype.val)

\* after parse_name returned name
parse_record_name(data, name) ==
    IF name.tag # "Done" THEN name
    ELSE parse_record_type(data, name.val, parse_type(name.rest))

parse_record(data, i) == parse_record_name(data, parse_name(i, data))

(***************************************************************************)
(* rr/writer.rs                                                            *)
(***************************************************************************)
write_data(name, rtype, rclass, ttl, bytes) ==
    write_name(name) \o write_u16(Type_into(rtype)) \o write_u16(Class_into(rclass))
      \o write_i32(ttl) \o write_u16(Len(bytes)) \o bytes

\* name, type, class, ttl, then a body whose RDLENGTH is patched in after it
\* is written: end - start, where start is the position of the length field
write_patched(name, rtype, class, ttl, body) ==
    write_name(name) \o write_u16(Type_into(rtype)) \o write_u16(Class_into(class))
      \o write_i32(ttl) \o write_u16(2 + Len(body)) \o body

write_rr(rr) ==
    CASE rr.type = "OPT" ->
           write_u8(0) \o write_u16(Type_into(Variant("OPT"))) \o write_u16(rr.payload_size)
             \o write_u8(rr.extended_rcode) \o write_u8(rr.version)
             \o write_u16(IF rr.dnssec_ok THEN 32768 ELSE 0)
             \o write_u16(Len(rr.data)) \o rr.data
      [] rr.type = "A" -> write_data(rr.name, Variant("A"), rr.class, rr.ttl, rr.addr)
      [] rr.type = "AAAA" ->
           write_data(rr.name, Variant("AAAA"), rr.class, rr.ttl, octets(rr.addr))
      [] rr.type = "CNAME" ->
           write_patched(rr.name, Variant("CNAME"), rr.class, rr.ttl, write_name(rr.cname))
      [] rr.type = "SOA" ->
           write_patched(rr.name, Variant("SOA"), rr.class, rr.ttl,
                         write_name(rr.mname) \o write_name(rr.rname)
                           \o write_u32(rr.serial) \o write_u32(rr.refresh)
                           \o write_u32(rr.retry) \o write_u32(rr.expire)
                           \o write_u32(rr.minimum))
      [] rr.type = "PTR" -> write_data(rr.name, Variant("PTR"), rr.class, rr.ttl, <<>>)
      [] rr.type = "MX" ->
           write_patched(rr.name, Variant("MX"), rr.class, rr.ttl,
                         write_u16(rr.preference) \o write_name(rr.exchange))
      [] rr.type = "NS" ->
           write_patched(rr.name, Variant("NS"), rr.class, rr.ttl, write_name(rr.ns_name))
      [] rr.type = "TXT" -> write_data(rr.name, Variant("TXT"), rr.class, rr.ttl, <<>>)
      [] rr.type = "Unknown" ->
           write_data(rr.name, Unknown(rr.rtype), rr.class, rr.ttl, rr.data)

(***************************************************************************)
(* question.rs                                                             *)
(***************************************************************************)
ByType(t) == [variant |-> "ByType", rtype |-> t]
QAll == [variant |-> "All", rtype |-> Variant("")]

\* Question::new with a class
Question_new_class(qname, qtype, qclass) ==
    LET p == from_str(qname) IN
    IF p.ok THEN [ok |-> TRUE, q |-> [qname |-> p.name, qtype |-> qtype, qclass |-> qclass],
                  err |-> ""]
    ELSE [ok |-> FALSE, q |-> <<>>, err |-> p.err]

qtype_from(bits) ==
    IF type_from(bits).variant # "Unknown" THEN Some(ByType(type_from(bits)))
    ELSE CASE bits = 252 -> Some([variant |-> "ZoneTransfer", rtype |-> Variant("")])
           [] bits = 253 -> Some([variant |-> "MailRecords", rtype |-> Variant("")])
           [] bits = 255 -> Some(QAll)
           [] OTHER -> None

\* the numeric code of a QType
QType_into(qtype) ==
    CASE qtype.variant = "ByType" -> Type_into(qtype.rtype)
      [] qtype.variant = "ZoneTransfer" -> 252
      [] qtype.variant = "MailRecords" -> 253
      [] qtype.variant = "All" -> 255

parse_fields(i) ==
    LET bits == be_u16(i) IN
    IF bits.tag # "Done" THEN bits
    ELSE LET qtype == qtype_from(bits.val) IN
         IF ~qtype.some THEN ParseError("MapOpt")
         ELSE LET qclass == parse_class(bits.rest) IN
              IF qclass.tag # "Done" THEN qclass
              ELSE Done(qclass.rest, <<qtype.val, qclass.val>>)

parse_question(data, i) ==
    LET name == parse_name(i, data) IN
    IF name.tag # "Done" THEN name
    ELSE LET args == parse_fields(name.rest) IN
         IF args.tag # "Done" THEN args
         ELSE Done(args.rest,
                   [qname |-> name.val, qtype |-> args.val[1], qclass |-> args.val[2]])

\* a Question on the wire: QNAME, QTYPE, QCLASS
write_question(q) ==
    write_name(q.qname) \o write_u16(QType_into(q.qtype)) \o write_u16(Class_into(q.qclass))

(***************************************************************************)
(* message.rs                                                              *)
(***************************************************************************)
Message_response(query, recursion_available) ==
    [header |-> Header_response(query.header, recursion_available),
     questions |-> query.questions, answers |-> <<>>, authorities |-> <<>>,
     additionals |-> <<>>]

push_answer(m, ans) ==
    [m EXCEPT !.header.answer_count = (@ + 1) % 65536, !.answers = Append(@, ans)]

\* push_authority that counts the record as an answer
push_authority_as_answer(m, auth) ==
    [m EXCEPT !.header.answer_count = (@ + 1) % 65536, !.authorities = Append(@, auth)]

push_authority(m, auth) ==
    [m EXCEPT !.header.ns_count = (@ + 1) % 65536, !.authorities = Append(@, auth)]

push_additional(m, additional) ==
    [m EXCEPT !.header.additional_count = (@ + 1) % 65536,
              !.additionals = Append(@, additional)]

\* parse_questions: up to count questions; an Incomplete one ends the list
\* with Done
RECURSIVE parse_questions_from(_, _, _, _)
\* after parse_question returned r
parse_questions_next(r, input, data, count, questions) ==
    IF r.tag = "Done"
    THEN parse_questions_from(r.rest, data, count - 1, Append(questions, r.val))
    ELSE IF r.tag = "Incomplete" THEN Done(input, questions)
    ELSE r

parse_questions_from(input, data, count, questions) ==
    IF count = 0 THEN Done(input, questions)
    ELSE parse_questions_next(parse_question(data, input), input, data, count,
                              questions)

parse_questions(i, data, count) == parse_questions_from(i, data, count, <<>>)

\* parse_records: up to count records; an Incomplete one ends the list with
\* Done
RECURSIVE parse_records_from(_, _, _, _)
\* after parse_record returned r
parse_records_next(r, input, data, count, records) ==
    IF r.tag = "Done"
    THEN parse_records_from(r.rest, data, count - 1, Append(records, r.val))
    ELSE IF r.tag = "Incomplete" THEN Done(input, records)
    ELSE r

parse_records_from(input, data, count, records) ==
    IF count = 0 THEN Done(input, records)
    ELSE parse_records_next(parse_record(data, input), input, data, count, records)

parse_records(i, data, count) == parse_records_from(i, data, count, <<>>)

\* do_parse_message after each of its parsers returned
message_additionals(header, questions, answers, authorities, additionals) ==
    IF additionals.tag # "Done" THEN additionals
    ELSE Done(additionals.rest,
              [header |-> header, questions |-> questions, answers |-> answers,
               authorities |-> authorities, additionals |-> additionals.val])

message_authorities(data, header, questions, answers, authorities) ==
    IF authorities.tag # "Done" THEN authorities
    ELSE message_additionals(header, questions, answers, authorities.val,
             parse_records(authorities.rest, data, header.additional_count))

message_answers(data, header, questions, answers) ==
    IF answers.tag # "Done" THEN answers
    ELSE message_authorities(data, header, questions, answers.val,
             parse_records(answers.rest, data, header.ns_count))

message_questions(data, header, questions) ==
    IF questions.tag # "Done" THEN questions
    ELSE IF Len(questions.val) # header.question_count
    THEN Done(questions.rest,
              [header |-> header, questions |-> questions.val,
               answers |-> <<>>, authorities |-> <<>>, additionals |-> <<>>])
    ELSE message_answers(data, header, questions.val,
             parse_records(questions.rest, data, header.answer_count))

message_header(data, header) ==
    IF header.tag # "Done" THEN header
    ELSE message_questions(data, header.val,
             parse_questions(header.rest, data, header.val.question_count))

do_parse_message(data) == message_header(data, parse_header(data))

\* what Message::parse returned: Ok(m), with the input do_parse_message left
\* unread, or Err(e); a panic or an endless recursion below it is neither
NotParsed == [tag |-> "", m |-> <<>>, left |-> <<>>, err |-> ""]

parse_result(r) ==
    CASE r.tag = "Done" -> [tag |-> "Ok", m |-> r.val, left |-> r.rest, err |-> ""]
      [] r.tag = "Error" -> [tag |-> "Err", m |-> <<>>, left |-> <<>>, err |-> r.err]
      [] r.tag = "Incomplete" ->
           [tag |-> "Err", m |-> <<>>, left |-> <<>>, err |-> "Incomplete"]
      [] OTHER -> [tag |-> r.tag, m |-> <<>>, left |-> <<>>, err |-> ""]

Message_parse(data) == parse_result(do_parse_message(data))

RECURSIVE write_questions(_, _)
\* the questions of a Message, one after the other
write_questions(entries, k) ==
    IF k > Len(entries) THEN <<>>
    ELSE write_question(entries[k]) \o write_questions(entries, k + 1)

RECURSIVE write_records(_, _)
\* the records of a section, one after the other
write_records(entries, k) ==
    IF k > Len(entries) THEN <<>>
    ELSE write_rr(entries[k]) \o write_records(entries, k + 1)

\* Message::encode: the header with the counts of the lists, the questions,
\* then answers, authorities and additionals
Message_encode(m) ==
    write_header([m.header EXCEPT !.question_count = Len(m.questions),
                                  !.answer_count = Len(m.answers),
                                  !.ns_count = Len(m.authorities),
                                  !.additional_count = Len(m.additionals)])
      \o write_questions(m.questions, 1)
      \o write_records(m.answers, 1)
      \o write_records(m.authorities, 1)
      \o write_records(m.additionals, 1)

(***************************************************************************)
(* Messages to build and to put on the wire.                               *)
(***************************************************************************)
\* "h.", "a.", "c." and "a.c."
Name_h == from_str(<<104, DOT>>).name
Name_a == from_str(<<97, DOT>>).name
Name_c == from_str(<<99, DOT>>).name
Name_ac == from_str(<<97, DOT, 99, DOT>>).name

Internet == Variant("Internet")

Record_A == [type |-> "A", name |-> Name_h, class |-> Internet, ttl |-> 3600,
             addr |-> <<192, 0, 2, 1>>]
Record_AAAA == [type |-> "AAAA", name |-> Name_h, class |-> Internet, ttl |-> -1,
                addr |-> <<8193, 3512, 0, 0, 0, 0, 0, 2>>]
Record_CNAME == [type |-> "CNAME", name |-> Name_h, class |-> Internet, ttl |-> 299,
                 cname |-> Name_c]
Record_NS == [type |-> "NS", name |-> Name_c, class |-> Internet, ttl |-> 172800,
              ns_name |-> Name_ac]
Record_PTR == [type |-> "PTR", name |-> Name_h, class |-> Internet, ttl |-> 60,
               ptrdname |-> Name_a]
Record_MX == [type |-> "MX", name |-> Name_c, class |-> Internet, ttl |-> 60,
              preference |-> 10, exchange |-> Name_ac]
Record_SOA == [type |-> "SOA", name |-> Name_c, class |-> Variant("Chaos"), ttl |-> 0,
               mname |-> Name_ac, rname |-> Name_h, serial |-> <<30875, 1>>,
               refresh |-> <<0, 7200>>, retry |-> <<0, 900>>, expire |-> <<18, 30080>>,
               minimum |-> <<65535, 65535>>]
Record_TXT == [type |-> "TXT", name |-> Name_h, class |-> Internet, ttl |-> 60,
               data |-> <<<<118, 61, 49>>>>]
Record_OPT == [type |-> "OPT", payload_size |-> 4096, extended_rcode |-> 0,
               version |-> 0, dnssec_ok |-> TRUE, data |-> <<>>]
Record_Unknown == [type |-> "Unknown", name |-> Name_a, rtype |-> 99,
                   class |-> Unknown(2), ttl |-> -2147483647, data |-> <<0, 255>>]

Records ==
    {Record_A, Record_AAAA, Record_CNAME, Record_NS, Record_PTR, Record_MX, Record_SOA,
     Record_TXT, Record_OPT, Record_Unknown}

Question_h == Question_new_class(<<104, DOT>>, ByType(Variant("A")), Internet).q
Question_ac == Question_new_class(<<97, DOT, 99, DOT>>, QAll, Variant("Hesoid")).q

QuestionLists == {<<>>, <<Question_h>>, <<Question_h, Question_ac>>}

Queries ==
    {Message_query(id, rd, qs) : id \in {1, 65535}, rd \in BOOLEAN, qs \in QuestionLists}

\* records in the three sections of m together
Pushed(m) == Len(m.answers) + Len(m.authorities) + Len(m.additionals)

(***************************************************************************)
(* SpecMessage: a Message is created by Message::query, turned into a      *)
(* response by Message::response and filled by push_answer, push_authority *)
(* and push_additional.  call is the operation that ran last.              *)
(***************************************************************************)
MessageInit ==
    /\ \E m \in Queries :
          /\ message = m
          /\ call = [fn |-> "query", arg |-> m.questions]
    /\ result = <<>>
    /\ wire = <<>> /\ framing = "" /\ parsed = <<>>
    /\ NoResolve

Response ==
    /\ ~message.header.qr
    /\ \E ra \in BOOLEAN :
          /\ message' = Message_response(message, ra)
          /\ call' = [fn |-> "response", arg |-> ra]
    /\ UNCHANGED <<result, wire, framing, parsed, resolverVars>>

PushAnswer ==
    /\ Pushed(message) < MaxPush
    /\ \E rr \in Records :
          /\ message' = push_answer(message, rr)
          /\ call' = [fn |-> "push_answer", arg |-> rr]
    /\ UNCHANGED <<result, wire, framing, parsed, resolverVars>>

PushAuthority ==
    /\ Pushed(message) < MaxPush
    /\ \E rr \in Records :
          /\ message' = push_authority(message, rr)
          /\ call' = [fn |-> "push_authority", arg |-> rr]
    /\ UNCHANGED <<result, wire, framing, parsed, resolverVars>>

PushAdditional ==
    /\ Pushed(message) < MaxPush
    /\ \E rr \in Records :
          /\ message' = push_additional(message, rr)
          /\ call' = [fn |-> "push_additional", arg |-> rr]
    /\ UNCHANGED <<result, wire, framing, parsed, resolverVars>>

MessageNext == Response \/ PushAnswer \/ PushAuthority \/ PushAdditional

SpecMessage == MessageInit /\ [][MessageNext]_vars

(***************************************************************************)
(* C13: in every Message made by Message::query, Message::response and the *)
(* push operations the four counts of the header are the lengths of the    *)
(* four lists; push_answer, push_authority and push_additional append the  *)
(* record to their own section, add one to its count and leave the other   *)
(* lists and counts as they are; Message::response keeps the questions and *)
(* their count and starts with empty sections.                             *)
(***************************************************************************)
CountsAreLengths(m) ==
    /\ m.header.question_count = Len(m.questions)
    /\ m.header.answer_count = Len(m.answers)
    /\ m.header.ns_count = Len(m.authorities)
    /\ m.header.additional_count = Len(m.additionals)

C13_PushStep ==
    /\ call'.fn = "push_answer" =>
          /\ message'.answers = Append(message.answers, call'.arg)
          /\ message'.header.answer_count = message.header.answer_count + 1
          /\ message'.authorities = message.authorities
          /\ message'.additionals = message.additionals
          /\ message'.header.ns_count = message.header.ns_count
          /\ message'.header.additional_count = message.header.additional_count
    /\ call'.fn = "push_authority" =>
          /\ message'.authorities = Append(message.authorities, call'.arg)
          /\ message'.header.ns_count = message.header.ns_count + 1
          /\ message'.answers = message.answers
          /\ message'.additionals = message.additionals
          /\ message'.header.answer_count = message.header.answer_count
          /\ message'.header.additional_count = message.header.additional_count
    /\ call'.fn = "push_additional" =>
          /\ message'.additionals = Append(message.additionals, call'.arg)
          /\ message'.header.additional_count = message.header.additional_count + 1
          /\ message'.answers = message.answers
          /\ message'.authorities = message.authorities
          /\ message'.header.answer_count = message.header.answer_count
          /\ message'.header.ns_count = message.header.ns_count
    /\ call'.fn \in {"push_answer", "push_authority", "push_additional"} =>
          /\ message'.questions = message.questions
          /\ message'.header.question_count = message.header.question_count
    /\ call'.fn = "response" =>
          /\ message'.questions = message.questions
          /\ message'.header.question_count = message.header.question_count
          /\ message'.answers = <<>>
          /\ message'.authorities = <<>>
          /\ message'.additionals = <<>>

C13_CountsMirrorLists ==
    /\ [](CountsAreLengths(message))
    /\ [][C13_PushStep]_vars

\* a response with two questions, an authority pushed after an answer
C13_Witness ==
    /\ message.header.qr
    /\ Len(message.questions) = 2
    /\ Len(message.answers) = 1
    /\ Len(message.authorities) = 1
    /\ call.fn = "push_authority"
    /\ message.header.ns_count = 1
    /\ message.header.answer_count = 1

(***************************************************************************)
(* SpecWire: a Message built by Message::query, Message::response and the  *)
(* push operations is encoded; the bytes reach Message::parse as they are, *)
(* cut short, or followed by one more byte.                                *)
(***************************************************************************)
RECURSIVE push_from(_, _, _, _, _)
\* the records of s from the k-th on pushed into m: s[1..p] as answers,
\* s[p+1..q] as authorities, the rest as additionals
push_from(m, s, p, q, k) ==
    IF k > Len(s) THEN m
    ELSE push_from(IF k <= p THEN push_answer(m, s[k])
                   ELSE IF k <= q THEN push_authority(m, s[k])
                   ELSE push_additional(m, s[k]),
                   s, p, q, k + 1)

Built(m, s, p, q) == push_from(m, s, p, q, 1)

RecordSeqs(n) == UNION {[1..k -> Records] : k \in 0..n}

WireQueries == {Message_query(1, rd, qs) : rd \in {FALSE}, qs \in QuestionLists}

\* a sequence of records and where it is cut into the three sections
Splits(n) ==
    {t \in RecordSeqs(n) \X (0..n) \X (0..n) :
        t[2] <= t[3] /\ t[3] <= Len(t[1])}

\* the Messages with up to n records
WireMessages(n) ==
    {Built(m, t[1], t[2], t[3]) :
        m \in WireQueries \cup {Message_response(x, TRUE) : x \in WireQueries},
        t \in Splits(n)}

WireInit ==
    /\ message \in WireMessages(MaxWireRecs)
    /\ wire = <<>>
    /\ framing = ""
    /\ parsed = NotParsed
    /\ NoResolve
    /\ NoCall

Encode ==
    /\ framing = ""
    /\ wire' = Message_encode(message)
    /\ framing' = "exact"
    /\ UNCHANGED <<message, parsed, resolverVars, callVars>>

\* the datagram is cut after its first n bytes
Truncate ==
    /\ framing = "exact"
    /\ \E n \in 0..(Len(wire) - 1) : wire' = UpTo(wire, n)
    /\ framing' = "truncated"
    /\ UNCHANGED <<message, parsed, resolverVars, callVars>>

\* the datagram carries one more byte after the message
AppendTrailing ==
    /\ framing = "exact"
    /\ \E b \in {0, 255} : wire' = Append(wire, b)
    /\ framing' = "trailing"
    /\ UNCHANGED <<message, parsed, resolverVars, callVars>>

Parse ==
    /\ framing # ""
    /\ parsed = NotParsed
    /\ parsed' = Message_parse(wire)
    /\ UNCHANGED <<message, wire, framing, resolverVars, callVars>>

WireNext == Encode \/ Truncate \/ AppendTrailing \/ Parse

SpecWire == WireInit /\ [][WireNext]_vars

(***************************************************************************)
(* C12: Message::parse of the bytes that Message::encode wrote for a       *)
(* Message returns Ok with a Message equal to the one encoded, and no      *)
(* byte of the input is left unread.                                       *)
(***************************************************************************)
C12_RoundTrip ==
    (framing = "exact" /\ parsed # NotParsed)
      => (/\ parsed.tag = "Ok"
          /\ parsed.left = <<>>
          /\ parsed.m = message)

(***************************************************************************)
(* C14: every Message that Message::parse returns as Ok holds as many      *)
(* questions, answers, authorities and additionals as its own header       *)
(* counts say, and a datagram cut before its last declared entry is not    *)
(* returned as Ok.                                                         *)
(***************************************************************************)
C14_ExactCounts ==
    /\ parsed.tag = "Ok" => CountsAreLengths(parsed.m)
    /\ (framing = "truncated" /\ parsed # NotParsed) => parsed.tag # "Ok"

(***************************************************************************)
(* C15: Message::parse returns Ok only when no byte is left after the      *)
(* declared sections, and a datagram with a byte after its last record is  *)
(* rejected with an error.                                                 *)
(***************************************************************************)
C15_NoTrailingBytes ==
    /\ parsed.tag = "Ok" => parsed.left = <<>>
    /\ (framing = "trailing" /\ parsed # NotParsed) => parsed.tag = "Err"

(***************************************************************************)
(* Name::from_str applied to strings.  A string is put together from up    *)
(* to MaxPieces pieces: single characters, and two long runs that make     *)
(* labels of 63 and 64 characters and names of 254 to 256 characters       *)
(* reachable with few pieces.                                              *)
(***************************************************************************)
Rep(c, n) == [k \in 1..n |-> c]

Pieces ==
    {<<97>>, <<HYPHEN>>, <<DOT>>, <<33>>, Rep(97, 61), Rep(97, 63) \o <<DOT>>}

RECURSIVE Concat(_, _)
Concat(ps, k) == IF k > Len(ps) THEN <<>> ELSE ps[k] \o Concat(ps, k + 1)

\* the strings of up to n pieces
NameStrings(n) == {Concat(ps, 1) : ps \in UNION {[1..k -> Pieces] : k \in 0..n}}

NameInit ==
    /\ call \in {[fn |-> "from_str", arg |-> s] : s \in NameStrings(MaxPieces)}
    /\ result = <<>>
    /\ NoMessageWork
    /\ NoResolve

FromStr ==
    /\ result = <<>>
    /\ result' = from_str(call.arg)
    /\ UNCHANGED <<call, messageVars, resolverVars>>

NameNext == FromStr

SpecName == NameInit /\ [][NameNext]_vars

RECURSIVE WellFormedFrom(_, _)
\* the bytes of n from position k on are labels of 1 to 63 letters, digits
\* and hyphens, none starting with a hyphen, and then the root label ends n
WellFormedFrom(n, k) ==
    /\ k <= Len(n)
    /\ IF n[k] = 0 THEN k = Len(n)
       ELSE /\ n[k] \in 1..63
            /\ k + n[k] < Len(n)
            /\ \A j \in (k + 1)..(k + n[k]) : IsLabelChar(n[j])
            /\ n[k + 1] # HYPHEN
            /\ WellFormedFrom(n, k + n[k] + 1)

WellFormedName(n) == Len(write_name(n)) <= 255 /\ WellFormedFrom(write_name(n), 1)

\* the characters of s at which a label starts
LabelStarts(s) == {k \in 1..Len(s) : k = 1 \/ s[k - 1] = DOT}

HasLabelOf64(s) ==
    \E k \in 1..(Len(s) - 63) : \A j \in k..(k + 63) : s[j] # DOT
EncodesOver255(s) == Len(s) + 1 > 255
HasLeadingHyphen(s) == \E k \in LabelStarts(s) : s[k] = HYPHEN
HasInvalidCharacter(s) == \E k \in 1..Len(s) : s[k] # DOT /\ ~IsLabelChar(s[k])
HasEmptyNonRootLabel(s) == s # <<DOT>> /\ \E k \in LabelStarts(s) : s[k] = DOT
LacksFinalDot(s) == s = <<>> \/ s[Len(s)] # DOT

(***************************************************************************)
(* C16 as stated: an accepted Name is well formed (at most 255 bytes,      *)
(* labels of 1 to 63 letters, digits and hyphens with no leading hyphen,   *)
(* root label last); a string with a 64-character label, an encoding over  *)
(* 255 bytes, a leading hyphen, an invalid character, an empty non-root    *)
(* label or no final dot is rejected; "." yields the root Name.            *)
(***************************************************************************)
C16_FromStrValidates ==
    (call # <<>> /\ call.fn = "from_str" /\ result # <<>>) =>
        /\ result.ok => WellFormedName(result.name)
        /\ (\/ HasLabelOf64(call.arg)
            \/ EncodesOver255(call.arg)
            \/ HasLeadingHyphen(call.arg)
            \/ HasInvalidCharacter(call.arg)
            \/ HasEmptyNonRootLabel(call.arg)
            \/ LacksFinalDot(call.arg)) => ~result.ok
        /\ call.arg = <<DOT>> => (result.ok /\ is_root(result.name))

(***************************************************************************)
(* C16 amended: as above, but only a non-empty string without the final    *)
(* dot is rejected; the empty string is accepted and yields the root Name  *)
(* like ".".                                                               *)
(***************************************************************************)
C16_FromStrValidatesNonEmpty ==
    (call # <<>> /\ call.fn = "from_str" /\ result # <<>>) =>
        /\ result.ok => WellFormedName(result.name)
        /\ (\/ HasLabelOf64(call.arg)
            \/ EncodesOver255(call.arg)
            \/ HasLeadingHyphen(call.arg)
            \/ HasInvalidCharacter(call.arg)
            \/ HasEmptyNonRootLabel(call.arg)
            \/ (call.arg # <<>> /\ LacksFinalDot(call.arg))) => ~result.ok
        /\ call.arg \in {<<DOT>>, <<>>} => (result.ok /\ is_root(result.name))

\* a name of the greatest accepted length, 254 characters, was accepted
C16_Witness ==
    /\ call # <<>> /\ call.fn = "from_str" /\ result # <<>>
    /\ result.ok
    /\ Len(call.arg) = 254
    /\ Len(write_name(result.name)) = 255

(***************************************************************************)
(* parse_name applied at every position of small messages.                 *)
(***************************************************************************)
\* root label, label lengths and pointer targets, a letter, a pointer tag
WireBytes == {0, 1, 2, 97, 192}

\* the messages of up to n bytes
Buffers(n) == UNION {[1..k -> WireBytes] : k \in 0..n}

ParseNameInit ==
    /\ call \in {[fn |-> "parse_name", arg |-> <<From(d, p), d>>] :
                    d \in Buffers(MaxBuf), p \in 0..MaxBuf}
    /\ result = <<>>
    /\ NoMessageWork
    /\ NoResolve

ParseName ==
    /\ result = <<>>
    /\ result' = parse_name(call.arg[1], call.arg[2])
    /\ UNCHANGED <<call, messageVars, resolverVars>>

ParseNameNext == ParseName

SpecParseName == ParseNameInit /\ [][ParseNameNext]_vars

RECURSIVE PointerAt(_, _)
\* the position in i of the pointer that ends the labels starting at k, or 0
\* when these labels do not lead to a pointer inside i
PointerAt(i, k) ==
    IF k + 1 > Len(i) THEN 0
    ELSE IF i[k] \in 1..63 THEN PointerAt(i, k + 1 + i[k])
    ELSE IF i[k] \in 192..255 THEN k
    ELSE 0

\* the absolute offset that the pointer at position k of i holds
PointerOffset(i, k) == ((i[k] % 64) * 256) + i[k + 1]

(***************************************************************************)
(* C17: when parse_name returns a name after it met a compression pointer, *)
(* the name is the labels before the pointer followed by the name parsed   *)
(* at the pointer's offset in the whole message, and the remaining input   *)
(* starts 2 bytes after the pointer, whatever was read at the target.      *)
(***************************************************************************)
C17_PointerTakesTwoBytes ==
    (/\ call # <<>> /\ call.fn = "parse_name" /\ result # <<>>
     /\ result.tag = "Done"
     /\ PointerAt(call.arg[1], 1) > 0) =>
        LET i == call.arg[1]
            data == call.arg[2]
            k == PointerAt(i, 1)
            target == parse_name(From(data, PointerOffset(i, k)), data)
        IN /\ result.rest = From(i, k + 1)
           /\ target.tag = "Done"
           /\ result.val = UpTo(i, k - 1) \o target.val

\* a label, then a pointer, then one more byte: the name was returned, the
\* byte after the pointer is what remains, and the parse at the target had
\* stopped elsewhere
C17_Witness ==
    /\ call # <<>> /\ call.fn = "parse_name" /\ result # <<>>
    /\ result.tag = "Done"
    /\ PointerAt(call.arg[1], 1) > 1
    /\ Len(result.rest) = 1
    /\ parse_name(From(call.arg[2], PointerOffset(call.arg[1], PointerAt(call.arg[1], 1))),
                  call.arg[2]).rest # result.rest

(***************************************************************************)
(* parse_record applied to one record on the wire: the root owner name, a  *)
(* type, class IN, a TTL, an RDLENGTH of any small value and RDATA bytes   *)
(* that need not be as many as RDLENGTH says, the whole cut at any length. *)
(***************************************************************************)
\* A, NS, CNAME, SOA, MX, TXT, AAAA, OPT, and a type without a parser
WireTypes == {1, 2, 5, 6, 15, 16, 28, 41, 99}

RDataBytes == {0, 1, 97, 192}

RDatas(n) == UNION {[1..k -> RDataBytes] : k \in 0..n}

WireRecord(rtype, length, rdata) ==
    <<0>> \o write_u16(rtype) \o write_u16(1) \o write_i32(60)
          \o write_u16(length) \o rdata

\* the records with up to n bytes of RDATA and an RDLENGTH of up to n + 1
WireRecords(n) ==
    {WireRecord(t, l, d) : t \in WireTypes, l \in 0..(n + 1), d \in RDatas(n)}

RecordBuffers(n) == UNION {{UpTo(w, k) : k \in 0..Len(w)} : w \in WireRecords(n)}

\* OPT records on the root name and on "a.": payload size, extended rcode
\* 0, version 0, flags, RDLENGTH and RDATA
OptRecords ==
    {owner \o write_u16(41) \o write_u16(payload_size) \o <<0, 0>>
       \o write_u16(flags) \o write_u16(length) \o rdata :
        owner \in {<<0>>, <<1, 97, 0>>}, payload_size \in {512, 4096},
        flags \in {0, 32767, 32768}, length \in 0..2, rdata \in {<<>>, <<7>>}}

OptBuffers == UNION {{UpTo(w, k) : k \in 0..Len(w)} : w \in OptRecords}

\* SOA records on the root name: MNAME and RNAME as the root name, a pointer
\* to the owner name or "a.", the five integers, an RDLENGTH around the
\* length that the RDATA has, and bytes after the record
SoaRecords ==
    {<<0>> \o write_u16(6) \o write_u16(1) \o write_i32(60)
       \o write_u16(IF Len(mname) + Len(rname) + 20 + d < 0 THEN 0
                    ELSE Len(mname) + Len(rname) + 20 + d)
       \o mname \o rname \o [k \in 1..20 |-> k] \o trailing :
        mname \in {<<0>>, <<192, 0>>, <<1, 97, 0>>},
        rname \in {<<0>>, <<192, 0>>, <<1, 97, 0>>},
        d \in {-22, -1, 0, 2, 3}, trailing \in {<<>>, <<7, 7>>}}

SoaBuffers == UNION {{UpTo(w, k) : k \in 0..Len(w)} : w \in SoaRecords}

ParseRecordInit ==
    /\ call \in {[fn |-> "parse_record", arg |-> b] :
                    b \in RecordBuffers(MaxRData) \cup OptBuffers \cup SoaBuffers}
    /\ result = <<>>
    /\ NoMessageWork
    /\ NoResolve

ParseRecord ==
    /\ result = <<>>
    /\ result' = parse_record(call.arg, call.arg)
    /\ UNCHANGED <<call, messageVars, resolverVars>>

ParseRecordNext == ParseRecord

SpecParseRecord == ParseRecordInit /\ [][ParseRecordNext]_vars

(***************************************************************************)
(* C18: whatever the buffer and its RDLENGTH, parse_record returns a       *)
(* record, a format error or Incomplete; it does not panic on an index     *)
(* out of bounds or an integer underflow.                                  *)
(***************************************************************************)
C18_NoPanic ==
    (call # <<>> /\ call.fn = "parse_record" /\ result # <<>>) =>
        result.tag \in {"Done", "Error", "Incomplete"}

(***************************************************************************)
(* write_header applied to Header values, and parse_header followed by     *)
(* write_header applied to 12-byte headers with every 16-bit flags word.   *)
(***************************************************************************)
\* the named codes, and Unknown with the values 0..n and 255
Opcodes(n) ==
    {Variant("Query"), Variant("InverseQuery"), Variant("Status"), Unknown(255)}
      \cup {Unknown(v) : v \in 0..n}

Rcodes(n) ==
    {Variant("NoError"), Variant("FormatError"), Variant("ServerFailure"),
     Variant("NameError"), Variant("NotImplemented"), Variant("Refused"),
     Unknown(255)}
      \cup {Unknown(v) : v \in 0..n}

Headers(n) ==
    {[id |-> 258, qr |-> f[1], opcode |-> o, authoritative |-> f[2],
      truncated |-> f[3], recursion_desired |-> f[4],
      recursion_available |-> f[5], rcode |-> r,
      question_count |-> 1, answer_count |-> 0, ns_count |-> 515,
      additional_count |-> 65535] :
        o \in Opcodes(n), r \in Rcodes(n), f \in [1..5 -> BOOLEAN]}

HeaderBytes ==
    {write_u16(258) \o write_u16(flags) \o write_u16(1) \o write_u16(0)
       \o write_u16(515) \o write_u16(65535) : flags \in 0..65535}

HeaderInit ==
    /\ \/ call \in {[fn |-> "write_header", arg |-> h] : h \in Headers(MaxCode)}
       \/ call \in {[fn |-> "parse_header", arg |-> b] : b \in HeaderBytes}
    /\ result = <<>>
    /\ NoMessageWork
    /\ NoResolve

ParseHeader ==
    /\ call.fn = "parse_header"
    /\ result = <<>>
    /\ result' = parse_header(call.arg)
    /\ UNCHANGED <<call, messageVars, resolverVars>>

\* write_header of the Header given, or of the Header that parse_header read
WriteHeader ==
    /\ wire = <<>>
    /\ \/ /\ call.fn = "write_header"
          /\ wire' = write_header(call.arg)
       \/ /\ call.fn = "parse_header"
          /\ result # <<>>
          /\ result.tag = "Done"
          /\ wire' = write_header(result.val)
    /\ UNCHANGED <<call, result, message, framing, parsed, resolverVars>>

HeaderNext == ParseHeader \/ WriteHeader

SpecHeader == HeaderInit /\ [][HeaderNext]_vars

\* the flags word of a written header
FlagsOf(bytes) == be_u16(From(bytes, 2)).val

FlagBit(b) == IF b THEN 1 ELSE 0

(***************************************************************************)
(* C19: in the flags word that write_header writes for any Header, bits    *)
(* 6-4 are zero, QR, AA, TC, RD and RA are the boolean fields, and an      *)
(* opcode or rcode that fits 4 bits sits in bits 14-11 or 3-0; no opcode   *)
(* or rcode value reaches another bit.                                     *)
(***************************************************************************)
C19_FlagsWellFormed ==
    (call # <<>> /\ call.fn = "write_header" /\ wire # <<>>) =>
        LET flags == FlagsOf(wire)
            h == call.arg
        IN /\ BitAnd(flags, 112) = 0
           /\ Bit(flags, 15) = FlagBit(h.qr)
           /\ Bit(flags, 10) = FlagBit(h.authoritative)
           /\ Bit(flags, 9) = FlagBit(h.truncated)
           /\ Bit(flags, 8) = FlagBit(h.recursion_desired)
           /\ Bit(flags, 7) = FlagBit(h.recursion_available)
           /\ Opcode_into(h.opcode) < 16
                => BitAnd(flags, 30720) \div 2048 = Opcode_into(h.opcode)
           /\ Rcode_into(h.rcode) < 16 => BitAnd(flags, 15) = Rcode_into(h.rcode)

\* the 12 bytes with the reserved bits 6-4 of the flags word cleared
ClearReserved(bytes) ==
    UpTo(bytes, 2) \o write_u16(FlagsOf(bytes) - BitAnd(FlagsOf(bytes), 112))
      \o From(bytes, 4)

(***************************************************************************)
(* C20: write_header of what parse_header read from 12 bytes gives the     *)
(* same 12 bytes when the reserved flag bits 6-4 are zero, and the bytes   *)
(* with these bits cleared otherwise; opcodes 3..15 and rcodes 6..15 are   *)
(* read as Unknown{value}.                                                 *)
(***************************************************************************)
C20_HeaderRoundTrip ==
    (call # <<>> /\ call.fn = "parse_header" /\ wire # <<>>) =>
        LET flags == FlagsOf(call.arg)
            opcode == BitAnd(flags, 30720) \div 2048
            rcode == BitAnd(flags, 15)
        IN /\ BitAnd(flags, 112) = 0 => wire = call.arg
           /\ wire = ClearReserved(call.arg)
           /\ opcode \in 3..15 => result.val.opcode = Unknown(opcode)
           /\ rcode \in 6..15 => result.val.rcode = Unknown(rcode)

\* a header with opcode 15, rcode 15, every flag set and the reserved bits
\* zero was read and written back
C20_Witness ==
    /\ call # <<>> /\ call.fn = "parse_header" /\ wire # <<>>
    /\ FlagsOf(call.arg) = 65423
    /\ result.val.opcode = Unknown(15)
    /\ result.val.rcode = Unknown(15)
    /\ wire = call.arg

\* the TYPE and RDLENGTH fields of a record buffer that holds both (the
\* owner is the root name, one byte)
TypeField(b) == be_u16(From(b, 1)).val
LengthField(b) == be_u16(From(b, 9)).val

\* the RDLENGTH an address record must have, and the name of its type
AddressLength(t) == IF t = 1 THEN 4 ELSE 16
AddressType(t) == IF t = 1 THEN "A" ELSE "AAAA"

(***************************************************************************)
(* C21: parse_record answers an A record whose RDLENGTH is not 4, and an   *)
(* AAAA record whose RDLENGTH is not 16, with the error                    *)
(* InvalidRecordLength of that type, never with Incomplete or a record;    *)
(* an A or AAAA record it returns has taken exactly 4 or 16 RDATA bytes.   *)
(***************************************************************************)
C21_AddressLengthEnforced ==
    (/\ call # <<>> /\ call.fn = "parse_record" /\ result # <<>>
     /\ Len(call.arg) >= 11
     /\ TypeField(call.arg) \in {1, 28}) =>
        /\ LengthField(call.arg) # AddressLength(TypeField(call.arg))
             => /\ result.tag = "Error"
                /\ result.err = "InvalidRecordLength("
                                  \o AddressType(TypeField(call.arg)) \o ")"
        /\ result.tag = "Done"
             => /\ LengthField(call.arg) = AddressLength(TypeField(call.arg))
                /\ Len(call.arg) - Len(result.rest)
                     = 11 + AddressLength(TypeField(call.arg))

\* the buffer starts with an owner name b[1..n] that has no pointer, and the
\* type after it is OPT
IsOptOn(b, n) ==
    /\ Len(b) >= n + 2
    /\ parse_name(b, b).tag = "Done"
    /\ Len(parse_name(b, b).rest) = Len(b) - n
    /\ be_u16(From(b, n)).val = 41

(***************************************************************************)
(* C22: parse_record answers an OPT record whose owner is not the root     *)
(* name with an error, however much of the body follows; from an OPT       *)
(* record on the root name it returns, payload_size is the CLASS slot and  *)
(* dnssec_ok is bit 15 of the flags.                                       *)
(***************************************************************************)
C22_OptOnRootOnly ==
    (call # <<>> /\ call.fn = "parse_record" /\ result # <<>>) =>
        /\ (call.arg # <<>> /\ call.arg[1] # 0 /\ IsOptOn(call.arg, 3))
             => result.tag = "Error"
        /\ (IsOptOn(call.arg, 1) /\ result.tag = "Done")
             => /\ result.val.type = "OPT"
                /\ result.val.payload_size = be_u16(From(call.arg, 3)).val
                /\ result.val.dnssec_ok = (Bit(be_u16(From(call.arg, 7)).val, 15) = 1)

\* an OPT record on "a." that ends right after its type was rejected
C22_Witness ==
    /\ call # <<>> /\ call.fn = "parse_record" /\ result # <<>>
    /\ call.arg = <<1, 97, 0, 0, 41>>
    /\ result.tag = "Error"

(***************************************************************************)
(* type_from and class_from applied to every 16-bit code.                  *)
(***************************************************************************)
CodeInit ==
    /\ call \in {[fn |-> f, arg |-> v] : f \in {"type_from", "class_from"}, v \in 0..65535}
    /\ result = <<>>
    /\ NoMessageWork
    /\ NoResolve

TypeFrom ==
    /\ call.fn = "type_from"
    /\ result = <<>>
    /\ result' = type_from(call.arg)
    /\ UNCHANGED <<call, messageVars, resolverVars>>

ClassFrom ==
    /\ call.fn = "class_from"
    /\ result = <<>>
    /\ result' = class_from(call.arg)
    /\ UNCHANGED <<call, messageVars, resolverVars>>

CodeNext == TypeFrom \/ ClassFrom

SpecCode == CodeInit /\ [][CodeNext]_vars

\* the codes that the record types and classes have on the wire
TypeCodes ==
    <<[code |-> 1, name |-> "A"], [code |-> 2, name |-> "NS"],
      [code |-> 5, name |-> "CNAME"], [code |-> 6, name |-> "SOA"],
      [code |-> 12, name |-> "PTR"], [code |-> 15, name |-> "MX"],
      [code |-> 16, name |-> "TXT"], [code |-> 28, name |-> "AAAA"],
      [code |-> 41, name |-> "OPT"]>>

ClassCodes ==
    <<[code |-> 1, name |-> "Internet"], [code |-> 3, name |-> "Chaos"],
      [code |-> 4, name |-> "Hesoid"]>>

\* the variant that the table gives the code v, Unknown{value: v} without one
Named(table, v) ==
    IF \E k \in 1..Len(table) : table[k].code = v
    THEN Variant(table[CHOOSE k \in 1..Len(table) : table[k].code = v].name)
    ELSE Unknown(v)

(***************************************************************************)
(* C23: type_from maps 1, 2, 5, 6, 12, 15, 16, 28, 41 to A, NS, CNAME,     *)
(* SOA, PTR, MX, TXT, AAAA, OPT and any other code v to Unknown{value: v}; *)
(* class_from maps 1, 3, 4 to Internet, Chaos, Hesoid and any other code   *)
(* v to Unknown{value: v}; no other code gives the same variant.           *)
(***************************************************************************)
C23_CodeTables ==
    (call # <<>> /\ call.fn \in {"type_from", "class_from"} /\ result # <<>>) =>
        /\ call.fn = "type_from"
             => /\ result = Named(TypeCodes, call.arg)
                /\ \A k \in 1..Len(TypeCodes) :
                       type_from(TypeCodes[k].code) = result
                         => TypeCodes[k].code = call.arg
        /\ call.fn = "class_from"
             => /\ result = Named(ClassCodes, call.arg)
                /\ \A k \in 1..Len(ClassCodes) :
                       class_from(ClassCodes[k].code) = result
                         => ClassCodes[k].code = call.arg

(***************************************************************************)
(* from_str, then Display, then from_str on the text that Display wrote.   *)
(***************************************************************************)
Display ==
    /\ call.fn = "from_str"
    /\ result # <<>>
    /\ result.ok
    /\ DOMAIN result = {"ok", "name", "err"}
    /\ result' = [ok |-> result.ok, name |-> result.name, err |-> result.err,
                  text |-> to_string(result.name)]
    /\ UNCHANGED <<call, messageVars, resolverVars>>

Reparse ==
    /\ call.fn = "from_str"
    /\ result # <<>>
    /\ DOMAIN result = {"ok", "name", "err", "text"}
    /\ result' = [ok |-> result.ok, name |-> result.name, err |-> result.err,
                  text |-> result.text, again |-> from_str(result.text)]
    /\ UNCHANGED <<call, messageVars, resolverVars>>

NameTextNext == FromStr \/ Display \/ Reparse

SpecNameText == NameInit /\ [][NameTextNext]_vars

(***************************************************************************)
(* C24: for every string s that from_str accepts, the text of the parsed   *)
(* Name is s again, and parsing the text of a Name that from_str produced  *)
(* gives the same Name.                                                    *)
(***************************************************************************)
C24_TextRoundTrip ==
    (call # <<>> /\ call.fn = "from_str" /\ result # <<>> /\ result.ok) =>
        /\ "text" \in DOMAIN result => result.text = call.arg
        /\ "again" \in DOMAIN result
             => /\ result.again.ok
                /\ result.again.name = result.name

\* the second half alone: the text of a Name parses to the Name
TextParsesBack ==
    (call # <<>> /\ call.fn = "from_str" /\ result # <<>> /\ result.ok
       /\ "again" \in DOMAIN result) =>
        /\ result.again.ok
        /\ result.again.name = result.name

\* the first half away from the root name
TextOfNonRoot ==
    (call # <<>> /\ call.fn = "from_str" /\ result # <<>> /\ result.ok
       /\ "text" \in DOMAIN result /\ ~is_root(result.name)) =>
        result.text = call.arg

(***************************************************************************)
(* write_rr on one record and a fresh cursor.                              *)
(***************************************************************************)
\* ".", "h.", "a.c." and a name of one label of 63 letters
WriteNames == {<<0>>, Name_h, Name_ac, <<63>> \o [k \in 1..63 |-> 97] \o <<0>>}

PatchedRecords ==
    {[type |-> t, name |-> n, class |-> Internet, ttl |-> 60, cname |-> x, ns_name |-> x,
      preference |-> p, exchange |-> x, mname |-> x, rname |-> y,
      serial |-> <<30875, 1>>, refresh |-> <<0, 7200>>, retry |-> <<0, 900>>,
      expire |-> <<18, 30080>>, minimum |-> <<65535, 65535>>] :
        t \in {"CNAME", "NS", "MX", "SOA"}, n \in {<<0>>, Name_c}, x \in WriteNames,
        y \in {<<0>>, Name_ac}, p \in {0, 65535}}

WriteRRInit ==
    /\ call \in {[fn |-> "write_rr", arg |-> rr] : rr \in PatchedRecords \cup Records}
    /\ result = <<>>
    /\ NoMessageWork
    /\ NoResolve

WriteRR ==
    /\ call.fn = "write_rr"
    /\ wire = <<>>
    /\ wire' = write_rr(call.arg)
    /\ UNCHANGED <<call, result, message, framing, parsed, resolverVars>>

WriteRRNext == WriteRR

SpecWriteRR == WriteRRInit /\ [][WriteRRNext]_vars

\* the bytes of the RDATA of rr: the embedded names, the preference of an MX
\* record, the five integers of a SOA record
RDataLength(rr) ==
    CASE rr.type = "CNAME" -> Len(rr.cname)
      [] rr.type = "NS" -> Len(rr.ns_name)
      [] rr.type = "MX" -> 2 + Len(rr.exchange)
      [] rr.type = "SOA" -> Len(rr.mname) + Len(rr.rname) + 20

\* where the RDLENGTH field of the record written for rr starts (0-based)
LengthOffset(rr) == Len(rr.name) + 8

(***************************************************************************)
(* C25: the RDLENGTH field of a CNAME, NS, MX or SOA record that write_rr  *)
(* wrote holds the number of RDATA bytes that follow the field (the names, *)
(* plus 2 for the MX preference, plus 20 for the SOA integers), and these  *)
(* bytes reach to the end of what was written, where the cursor stands.    *)
(***************************************************************************)
C25_LengthBackPatched ==
    (/\ call # <<>> /\ call.fn = "write_rr" /\ wire # <<>>
     /\ call.arg.type \in {"CNAME", "NS", "MX", "SOA"}) =>
        /\ be_u16(From(wire, LengthOffset(call.arg))).val = RDataLength(call.arg)
        /\ Len(wire) = LengthOffset(call.arg) + 2 + RDataLength(call.arg)

\* what write_rr patches in: the RDATA bytes and the two bytes of the field
LengthCountsItsField ==
    (/\ call # <<>> /\ call.fn = "write_rr" /\ wire # <<>>
     /\ call.arg.type \in {"CNAME", "NS", "MX", "SOA"}) =>
        /\ be_u16(From(wire, LengthOffset(call.arg))).val = RDataLength(call.arg) + 2
        /\ Len(wire) = LengthOffset(call.arg) + 2 + RDataLength(call.arg)

\* a record on the root name whose type is CNAME, NS, MX or SOA
HasEmbeddedName(b) ==
    /\ Len(b) >= 11
    /\ b[1] = 0
    /\ TypeField(b) \in {2, 5, 6, 15}

(***************************************************************************)
(* C26: after parse_record has decoded a CNAME, NS, MX or SOA record, the  *)
(* remaining input starts RDLENGTH bytes after the end of the RDLENGTH     *)
(* field, however many bytes the embedded names took.                      *)
(***************************************************************************)
C26_CursorAdvancesByLength ==
    (/\ call # <<>> /\ call.fn = "parse_record" /\ result # <<>>
     /\ HasEmbeddedName(call.arg) /\ result.tag = "Done") =>
        /\ 11 + LengthField(call.arg) <= Len(call.arg)
        /\ result.rest = From(call.arg, 11 + LengthField(call.arg))

\* a CNAME record of RDLENGTH 3 whose name is a pointer of two bytes
C26_Witness ==
    /\ call # <<>> /\ call.fn = "parse_record" /\ result # <<>>
    /\ call.arg = WireRecord(5, 3, <<192, 0, 97, 97>>)
    /\ result.tag = "Done"
    /\ result.val.cname = <<0>>
    /\ result.rest = <<97>>

\* an SOA record with two pointers was decoded and bytes are left after it
SoaDecoded ==
    /\ call # <<>> /\ call.fn = "parse_record" /\ result # <<>>
    /\ HasEmbeddedName(call.arg) /\ TypeField(call.arg) = 6
    /\ Len(call.arg) >= 12 /\ call.arg[12] = 192
    /\ result.tag = "Done"
    /\ result.rest = <<7, 7>>

\* the bytes that parse_name takes from the input i of the message data
NameTakes(i, data) == Len(i) - Len(parse_name(i, data).rest)

\* the bytes after the RDLENGTH field that the RDATA of a decoded CNAME, NS,
\* MX or SOA record on the root name was read from
RDataTakes(b) ==
    LET output == From(b, 11) IN
    CASE TypeField(b) \in {2, 5} -> NameTakes(output, b)
      [] TypeField(b) = 15 -> 2 + NameTakes(From(output, 2), b)
      [] TypeField(b) = 6 ->
           NameTakes(output, b) + NameTakes(parse_name(output, b).rest, b) + 20

(***************************************************************************)
(* C27: parse_record returns no CNAME, NS, MX or SOA record whose RDATA    *)
(* (names and fixed fields) takes more bytes of the stream than RDLENGTH   *)
(* declares: the RDATA of a returned record was read within RDLENGTH bytes *)
(* after the length field, and the remaining input starts after them.      *)
(***************************************************************************)
C27_ContentWithinLength ==
    (/\ call # <<>> /\ call.fn = "parse_record" /\ result # <<>>
     /\ HasEmbeddedName(call.arg) /\ result.tag = "Done") =>
        /\ RDataTakes(call.arg) <= LengthField(call.arg)
        /\ Len(result.rest) <= Len(call.arg) - 11 - RDataTakes(call.arg)

\* a decoded record is one whose RDLENGTH the input has
LengthWithinInput ==
    (/\ call # <<>> /\ call.fn = "parse_record" /\ result # <<>>
     /\ HasEmbeddedName(call.arg) /\ result.tag = "Done") =>
        11 + LengthField(call.arg) <= Len(call.arg)

\* the input of the call starts with a pointer whose offset is not a
\* position of the message
PointerOutOfBounds ==
    /\ call # <<>> /\ call.fn = "parse_name" /\ result # <<>>
    /\ Len(call.arg[1]) >= 2
    /\ call.arg[1][1] \in 192..255
    /\ PointerOffset(call.arg[1], 1) >= Len(call.arg[2])

(***************************************************************************)
(* C28: a pointer whose offset is greater than or equal to the length of   *)
(* the message makes parse_name fail with an error, not with Incomplete;   *)
(* the offset equal to the length of the message included.                 *)
(***************************************************************************)
C28_OutOfBoundsIsError ==
    PointerOutOfBounds => result.tag = "Error"

\* what parse_name answers instead
OutOfBoundsIsIncomplete ==
    PointerOutOfBounds => result.tag = "Incomplete"

(***************************************************************************)
(* C29: parse_name returns on every message: a pointer to itself, a        *)
(* forward pointer or a cycle of pointers ends in a result of the parser   *)
(* (a name, an error or Incomplete), not in a recursion without end.       *)
(***************************************************************************)
C29_ParseNameReturns ==
    (call # <<>> /\ call.fn = "parse_name" /\ result # <<>>) =>
        result.tag \in {"Done", "Error", "Incomplete"}

\* the calls that do not return are those that come back to a pointer with
\* the name as long as it was: a cycle of pointers with no label between
OnlyBareCyclesRecurse ==
    (call # <<>> /\ call.fn = "parse_name" /\ result # <<>>
       /\ result.tag = "StackOverflow") =>
        /\ PointerAt(call.arg[1], 1) > 0
        /\ \E k \in 1..(Len(call.arg[2]) - 1) :
               /\ call.arg[2][k] \in 192..255
               /\ PointerOffset(call.arg[2], k) < Len(call.arg[2])
               /\ call.arg[2][PointerOffset(call.arg[2], k) + 1] \in 192..255

RECURSIVE QueriesSent(_)
\* the queries sent by the invocations on the stack s, nested ones included
QueriesSent(s) == IF s = <<>> THEN 0 ELSE Head(s).sent + QueriesSent(Tail(s))

NestedStartsAfresh ==
    [][Len(stack') > Len(stack)
         => /\ Len(stack') = Len(stack) + 1
            /\ stack'[Len(stack')] = NewFrame(stack'[Len(stack')].host)]_vars

\* the nesting is as deep as the referrals of the model let it be
DeepestNesting == Len(stack) = MaxDepth + 1 /\ Top.pc = "body"

====
